---------------------------- MODULE Spec2Model ----------------------------
(***************************************************************************)
(* A state-machine model of the Hive rules engine of open_spiel:           *)
(* HexBoard (hive_hexboard.h / hive_hexboard.cc) and HiveState (hive.h /   *)
(* hive.cc).  Positions are triples <<q, r, h>>, tiles are the values of   *)
(* the NewHiveTile enum (0..27, 28 = kNoneTile), directions are the values *)
(* of the Direction enum (0..5 cardinal, 6 = kAbove).                      *)
(***************************************************************************)
EXTENDS Integers, Sequences, FiniteSets, TLC

(***************************************************************************)
(* Program constants                                                       *)
(***************************************************************************)
kMaxTileCount == 28
kMaxBoardRadius == 14
kDefaultBoardRadius == 8
kNumCardinalDirections == 6
kAbove == 6
kNumAllDirections == 7
kNoneTile == 28
kNumCoveredSlots == 7
kDefaultNumBugTypes == 5
kNumPlayers == 2
kMaxGameLength == 1000
kNumDistinctActions == 5489
kPlayerWhite == 0
kPlayerBlack == 1
kTerminalPlayerId == -4

wQ == 0
wA1 == 1
wA2 == 2
wA3 == 3
wG1 == 4
wG2 == 5
wG3 == 6
wS1 == 7
wS2 == 8
wB1 == 9
wB2 == 10
wM == 11
wL == 12
wP == 13
bQ == 14
bA1 == 15
bA2 == 16
bA3 == 17
bG1 == 18
bG2 == 19
bG3 == 20
bS1 == 21
bS2 == 22
bB1 == 23
bB2 == 24
bM == 25
bL == 26
bP == 27

kWhite == 0
kBlack == 1

kNE == 0
kE == 1
kSE == 2
kSW == 3
kW == 4
kNW == 5

kOriginPosition == <<0, 0, 0>>
kNullPosition == <<0, 0, -1>>

Tiles == 0 .. (kMaxTileCount - 1)
CardinalDirections == 0 .. (kNumCardinalDirections - 1)

(***************************************************************************)
(* Hex geometry (HivePosition)                                             *)
(***************************************************************************)
Abs(x) == IF x < 0 THEN -x ELSE x

Min2(a, b) == IF a < b THEN a ELSE b

Max2(a, b) == IF a > b THEN a ELSE b

kNeighbourOffsets ==
  <<  <<1, -1, 0>>, <<1, 0, 0>>, <<0, 1, 0>>,
      <<-1, 1, 0>>, <<-1, 0, 0>>, <<0, -1, 0>>, <<0, 0, 1>>  >>

PosAdd(p, o) == <<p[1] + o[1], p[2] + o[2], p[3] + o[3]>>

PosSub(p, o) == <<p[1] - o[1], p[2] - o[2], p[3] - o[3]>>

\* HivePosition::NeighbourAt: the offset keeps the height of the position
NeighbourAt(p, dir) == PosAdd(p, kNeighbourOffsets[dir + 1])

\* HivePosition::Neighbours: built from (q, r) alone, so always at height 0
Neighbours(p) == { <<p[1] + kNeighbourOffsets[d + 1][1],
                     p[2] + kNeighbourOffsets[d + 1][2], 0>> : d \in CardinalDirections }

Grounded(p) == <<p[1], p[2], 0>>

DistanceTo(p, other) ==
  LET dq == p[1] - other[1]
      dr == p[2] - other[2]
  IN  (Abs(dq) + Abs(dq + dr) + Abs(dr)) \div 2

OppositeDirection(d) == (d + 3) % 6

ClockwiseDirection(d) == (d + 1) % 6

CounterClockwiseDirection(d) == (d + 5) % 6

OtherColour(c) == IF c = kWhite THEN kBlack ELSE kWhite

PlayerToColour(p) == IF p = 0 THEN kWhite ELSE kBlack

(***************************************************************************)
(* Tile identity (NewHiveTile)                                             *)
(***************************************************************************)
HasValue(t) == t < kNoneTile

GetColour(t) == IF t < bQ THEN kWhite ELSE kBlack

\* BugType as a string; "None" for kNoneTile
GetBugType(t) ==
  LET i == IF t >= bQ THEN t - bQ ELSE t
  IN  IF t >= kNoneTile THEN "None"
      ELSE IF i = 0 THEN "Queen"
      ELSE IF i <= 3 THEN "Ant"
      ELSE IF i <= 6 THEN "Grasshopper"
      ELSE IF i <= 8 THEN "Spider"
      ELSE IF i <= 10 THEN "Beetle"
      ELSE IF i = 11 THEN "Mosquito"
      ELSE IF i = 12 THEN "Ladybug"
      ELSE "Pillbug"

GetTilesForColour(c) == IF c = kWhite THEN wQ .. wP ELSE bQ .. bP

QueenOf(c) == IF c = kWhite THEN wQ ELSE bQ


(***************************************************************************)
(* HexBoard accessors.  A board b is a record holding the members of       *)
(* HexBoard under their own names.                                         *)
(***************************************************************************)
Radius(b) == b.hex_radius_

SquareDimensions(b) == Radius(b) * 2 + 1

AxialToIndex(b, pos) ==
  pos[1] + Radius(b) + ((pos[2] + Radius(b)) * SquareDimensions(b))

\* tile_grid_ is the flat vector of (2R+1)^2 tiles; the model stores the
\* entries that hold a tile, every other index of the vector reads kNoneTile
GridAt(grid, idx) == IF idx \in DOMAIN grid THEN grid[idx] ELSE kNoneTile

GridSet(grid, idx, t) ==
  IF HasValue(t)
  THEN (idx :> t) @@ grid
  ELSE [j \in (DOMAIN grid) \ {idx} |-> grid[j]]

\* tile accessor with bounds checking; the height of pos is not looked at
GetTopTileAt(b, pos) ==
  IF DistanceTo(pos, kOriginPosition) > Radius(b)
  THEN kNoneTile
  ELSE GridAt(b.tile_grid_, AxialToIndex(b, pos))

GetPositionOf(b, t) == IF HasValue(t) THEN b.tile_positions_[t] ELSE kNullPosition

IsInPlay(b, t) == HasValue(t) /\ b.tile_positions_[t] # kNullPosition

\* IsCovered looking at the first slot of covered_tiles_ only
IsCoveredInFirstSlot(b, t) == HasValue(t) /\ b.covered_tiles_[0] = t

IsCovered(b, t) ==
  HasValue(t) /\ \E i \in 0 .. (kNumCoveredSlots - 1) : b.covered_tiles_[i] = t

\* std::find_if over covered_tiles_: the first slot whose tile is at pos,
\* or the end of the array
FindIfCoveredAt(b, pos) ==
  LET found == { i \in 0 .. (kNumCoveredSlots - 1) :
                   GetPositionOf(b, b.covered_tiles_[i]) = pos }
  IN  IF found = {} THEN kNumCoveredSlots
      ELSE CHOOSE i \in found : \A j \in found : i <= j

\* IsCovered of a position returns the iterator found as a bool: an
\* iterator of the array, its end included, is a pointer that is not null
IsCoveredPos(b, pos) == FindIfCoveredAt(b, pos) \in 0 .. kNumCoveredSlots

IsPinnedPos(b, pos) == pos \in b.articulation_points_

IsPinned(b, t) == HasValue(t) /\ IsPinnedPos(b, b.tile_positions_[t])

\* the top tiles around pos in direction order; to_ignore is not used
NeighboursOf(b, pos, to_ignore) ==
  LET all == [d \in 1 .. kNumCardinalDirections |->
                GetTopTileAt(b, <<pos[1] + kNeighbourOffsets[d][1],
                                  pos[2] + kNeighbourOffsets[d][2], 0>>)]
  IN  SelectSeq(all, HasValue)

IsConnected(b, pos, to_ignore) == Len(NeighboursOf(b, pos, to_ignore)) > 0

\* cw_exists and ccw_exists of IsGated: a tile at least as high as pos
\* stands on the side cell
GateSide(b, pos, side, to_ignore) ==
  side # to_ignore /\ GetPositionOf(b, GetTopTileAt(b, side))[3] >= pos[3]

\* IsGated closing a gate on the ground only when both side cells are taken
GateClosedWhenBoth(pos, cw_exists, ccw_exists) == cw_exists /\ ccw_exists

\* the return statement of IsGated
GateClosed(pos, cw_exists, ccw_exists) ==
  IF pos[3] = 0 THEN cw_exists = ccw_exists ELSE cw_exists /\ ccw_exists

\* IsGated verifies requirement (3) of GenerateValidSlides
IsGated(b, pos, d, to_ignore) ==
  GateClosed(pos,
             GateSide(b, pos, NeighbourAt(pos, ClockwiseDirection(d)), to_ignore),
             GateSide(b, pos, NeighbourAt(pos, CounterClockwiseDirection(d)), to_ignore))

IsQueenSurrounded(b, c) ==
  LET queen == QueenOf(c)
  IN  /\ IsInPlay(b, queen)
      /\ \A n \in Neighbours(b.tile_positions_[queen]) : GetTopTileAt(b, n) # kNoneTile

GetTileBelow(b, pos) ==
  LET below == PosSub(pos, kNeighbourOffsets[kAbove + 1])
      found == { i \in 0 .. (kNumCoveredSlots - 1) :
                   HasValue(b.covered_tiles_[i])
                   /\ b.tile_positions_[b.covered_tiles_[i]] = below }
  IN  IF GetPositionOf(b, GetTopTileAt(b, below)) = below
      THEN GetTopTileAt(b, below)
      ELSE IF found # {}
      THEN b.covered_tiles_[CHOOSE i \in found : \A j \in found : i <= j]
      ELSE kNoneTile

IsPlaceable(b, c, pos) ==
  /\ pos \in b.colour_influence_[c]
  /\ pos \notin b.colour_influence_[OtherColour(c)]
  /\ ~IsInPlay(b, GetTopTileAt(b, pos))

(***************************************************************************)
(* UpdateInfluence: the influence range of colour c, recomputed            *)
(***************************************************************************)
UpdateInfluence(b, c) ==
  UNION { Neighbours(b.tile_positions_[b.played_tiles_[i]]) :
            i \in { j \in 1 .. Len(b.played_tiles_) :
                      /\ GetColour(b.played_tiles_[j]) = c
                      /\ ~IsCovered(b, b.played_tiles_[j]) } }

(***************************************************************************)
(* UpdateArticulationPoints: the depth-first search of the code, started   *)
(* at tile_positions_[wQ].  The search state s holds visited, entry_point, *)
(* low_point, visit_order and the articulation points found so far.        *)
(***************************************************************************)
RECURSIVE ArticulationDfs(_, _, _, _, _)
RECURSIVE ArticulationLoop(_, _, _, _, _)

\* the end of a pass that went down to to_vertex; s2 is the search state
\* the recursive call returned
ArticulationReturn(e, s2, vertex, to_vertex, is_root) ==
  [s |-> [s2 EXCEPT !.low_point =
                      (vertex :> Min2(s2.low_point[vertex], s2.low_point[to_vertex])) @@ @,
                    !.articulation_points_ =
                      IF s2.low_point[to_vertex] >= s2.entry_point[vertex]
                         /\ ~is_root
                      THEN @ \cup {vertex} ELSE @],
   children |-> e.children + 1]

\* the body of the for loop of the lambda for the neighbour to_vertex
ArticulationVisit(b, e, s, vertex, to_vertex, parent, is_root) ==
  IF ~HasValue(GetTopTileAt(b, to_vertex))
  THEN e
  ELSE IF to_vertex = parent
  THEN e
  ELSE IF to_vertex \in s.visited
  THEN [e EXCEPT !.s.low_point =
          (vertex :> Min2(s.low_point[vertex], s.entry_point[to_vertex])) @@ @]
  ELSE ArticulationReturn(e, ArticulationDfs(b, s, to_vertex, vertex, FALSE),
                          vertex, to_vertex, is_root)

\* one pass of the for loop of the lambda, for direction dir; e holds the
\* search state s and the local counter children
ArticulationEdge(b, e, vertex, parent, is_root, dir) ==
  ArticulationVisit(b, e, e.s, vertex, PosAdd(vertex, kNeighbourOffsets[dir + 1]),
                    parent, is_root)

\* the for loop of the lambda, pass by pass, and what follows it
ArticulationLoop(b, e, vertex, parent, is_root) ==
  LET e1 == ArticulationEdge(b, e, vertex, parent, is_root, kNE)
      e2 == ArticulationEdge(b, e1, vertex, parent, is_root, kE)
      e3 == ArticulationEdge(b, e2, vertex, parent, is_root, kSE)
      e4 == ArticulationEdge(b, e3, vertex, parent, is_root, kSW)
      e5 == ArticulationEdge(b, e4, vertex, parent, is_root, kW)
      e6 == ArticulationEdge(b, e5, vertex, parent, is_root, kNW)
  IN  \* the guard has each pass evaluated before the next one is entered
      CASE /\ e1 = e1
           /\ e2 = e2
           /\ e3 = e3
           /\ e4 = e4
           /\ e5 = e5
           /\ e6 = e6 ->
        IF is_root /\ e6.children > 1
        THEN [e6.s EXCEPT !.articulation_points_ = @ \cup {vertex}]
        ELSE e6.s

\* the lambda dfs
ArticulationDfs(b, s, vertex, parent, is_root) ==
  ArticulationLoop(b,
    [s |-> [s EXCEPT !.visited = @ \cup {vertex},
                     !.entry_point = (vertex :> s.visit_order) @@ @,
                     !.low_point = (vertex :> s.visit_order) @@ @,
                     !.visit_order = @ + 1],
     children |-> 0],
    vertex, parent, is_root)

UpdateArticulationPoints(b) ==
  ArticulationDfs(b,
    [visited |-> {}, entry_point |-> <<>>, low_point |-> <<>>,
     visit_order |-> 0, articulation_points_ |-> {}],
    b.tile_positions_[wQ], kNullPosition, TRUE).articulation_points_

(***************************************************************************)
(* MoveTile.  A move is a record [from, to, direction].  The result is     *)
(* [ok |-> what the code returns, board |-> the board afterwards].         *)
(***************************************************************************)
\* variant: the target keeps the height of the reference tile
MoveTargetWithoutSnap(b, move) ==
  IF move.to = kNoneTile
  THEN kOriginPosition
  ELSE NeighbourAt(b.tile_positions_[move.to], move.direction)

\* the position a move resolves to (MoveTile, first part)
MoveTarget(b, move) ==
  IF HasValue(move.to)
  THEN LET raw == PosAdd(b.tile_positions_[move.to], kNeighbourOffsets[move.direction + 1])
           top_tile == GetTopTileAt(b, raw)
       IN  IF raw[3] > 0
           THEN IF HasValue(top_tile)
                THEN <<raw[1], raw[2], b.tile_positions_[top_tile][3] + 1>>
                ELSE <<raw[1], raw[2], 0>>
           ELSE raw
  ELSE kOriginPosition

\* a tile that becomes covered goes to the first free slot, if there is one
CoverTile(covered, t) ==
  LET free == { i \in 0 .. (kNumCoveredSlots - 1) : ~HasValue(covered[i]) }
  IN  IF free = {} THEN covered
      ELSE [covered EXCEPT ![CHOOSE i \in free : \A j \in free : i <= j] = t]

\* variant: the slot of a reinstated tile is never cleared
RotateOutKeepingSlot(covered, i) == covered

\* std::rotate of [i, end) by one to the left, after slot i was cleared
RotateOut(covered, i) ==
  [k \in 0 .. (kNumCoveredSlots - 1) |->
     IF k < i THEN covered[k]
     ELSE IF k < kNumCoveredSlots - 1 THEN covered[k + 1]
     ELSE kNoneTile]

\* colour c's influence recomputed on board b
WithInfluence(b, c) == [b EXCEPT !.colour_influence_[c] = UpdateInfluence(b, c)]

\* variant: only the moved tile's colour has its influence recomputed
InfluenceOfMoverOnly(b1, mine, old_pos, new_pos) == WithInfluence(b1, mine)

\* the end of MoveTile: the influence of the moved tile's colour, and of
\* both colours if the moved tile was part of a stack
InfluenceAfterMove(b1, mine, old_pos, new_pos) ==
  IF old_pos[3] > 0 \/ new_pos[3] > 0
  THEN WithInfluence(WithInfluence(b1, mine), OtherColour(mine))
  ELSE WithInfluence(b1, mine)

\* PutDown with the moved tile appended to played_tiles_ wherever it
\* comes from
PutDownAppending(b, move, old_pos, new_pos, new_idx) ==
  [b EXCEPT !.played_tiles_ = Append(@, move.from),
            !.last_moved_from_ = IF new_pos # old_pos THEN old_pos ELSE @,
            !.covered_tiles_ = IF HasValue(GridAt(b.tile_grid_, new_idx))
                               THEN CoverTile(@, GridAt(b.tile_grid_, new_idx))
                               ELSE @,
            !.tile_grid_ = GridSet(@, new_idx, move.from),
            !.tile_positions_ = [@ EXCEPT ![move.from] = new_pos],
            !.last_moved_ = move.from]

\* MoveTile from the bounds check to the new grid entry: the tile at the
\* target becomes covered and the moved tile takes its place
PutDown(b, move, old_pos, new_pos, new_idx) ==
  [b EXCEPT !.played_tiles_ = IF old_pos = kNullPosition
                              THEN Append(@, move.from) ELSE @,
            !.last_moved_from_ = IF new_pos # old_pos THEN old_pos ELSE @,
            !.covered_tiles_ = IF HasValue(GridAt(b.tile_grid_, new_idx))
                               THEN CoverTile(@, GridAt(b.tile_grid_, new_idx))
                               ELSE @,
            !.tile_grid_ = GridSet(@, new_idx, move.from),
            !.tile_positions_ = [@ EXCEPT ![move.from] = new_pos],
            !.last_moved_ = move.from]

\* the covered slots holding a tile of the cell of old_pos
SlotsBelow(b1, old_pos) ==
  { i \in 0 .. (kNumCoveredSlots - 1) :
      /\ b1.covered_tiles_[i] # kNoneTile
      /\ Grounded(old_pos) = Grounded(b1.tile_positions_[b1.covered_tiles_[i]]) }

\* the tile of slot hit comes back to the grid and leaves covered_tiles_
Uncover(b1, old_idx, hit) ==
  [b1 EXCEPT !.tile_grid_ = GridSet(@, old_idx, b1.covered_tiles_[hit]),
             !.covered_tiles_ = RotateOut(@, hit)]

\* Reinstate with the slots read from the front
ReinstateFromFront(b1, old_pos, below) ==
  IF old_pos[3] > 0
  THEN IF below # {}
       THEN Uncover(b1, AxialToIndex(b1, old_pos),
                    CHOOSE i \in below : \A j \in below : i <= j)
       ELSE b1
  ELSE IF old_pos # kNullPosition
  THEN [b1 EXCEPT !.tile_grid_ = GridSet(@, AxialToIndex(b1, old_pos), kNoneTile)]
  ELSE b1

\* MoveTile: what is left at old_pos.  The slots are read in reverse, so
\* the first tile found is the next highest one.
Reinstate(b1, old_pos, below) ==
  IF old_pos[3] > 0
  THEN IF below # {}
       THEN Uncover(b1, AxialToIndex(b1, old_pos),
                    CHOOSE i \in below : \A j \in below : j <= i)
       ELSE b1
  ELSE IF old_pos # kNullPosition
  THEN [b1 EXCEPT !.tile_grid_ = GridSet(@, AxialToIndex(b1, old_pos), kNoneTile)]
  ELSE b1

ReinstateAt(b1, old_pos) == Reinstate(b1, old_pos, SlotsBelow(b1, old_pos))

\* MoveTile between the bounds check and the influence update
PlaceAndReinstate(b, move, old_pos, new_pos) ==
  ReinstateAt(PutDown(b, move, old_pos, new_pos, AxialToIndex(b, new_pos)), old_pos)

\* the last line of MoveTile
WithArticulationPoints(b) ==
  [b EXCEPT !.articulation_points_ = UpdateArticulationPoints(b)]

\* MoveTileTo with the bounds check ahead of the update of largest_radius
MoveTileToCheckingFirst(b, move, old_pos, new_pos, dist) ==
  IF dist > b.hex_radius_
  THEN [ok |-> FALSE, board |-> b]
  ELSE [ok |-> TRUE,
        board |-> WithArticulationPoints(
                    InfluenceAfterMove(
                      PlaceAndReinstate(
                        [b EXCEPT !.largest_radius = Max2(@, dist)],
                        move, old_pos, new_pos),
                      GetColour(move.from), old_pos, new_pos))]

\* MoveTileTo with the bound one cell further out
MoveTileToOneBeyond(b, move, old_pos, new_pos, dist) ==
  IF dist > b.hex_radius_ + 1
  THEN [ok |-> FALSE,
        board |-> [b EXCEPT !.largest_radius = Max2(@, dist)]]
  ELSE [ok |-> TRUE,
        board |-> WithArticulationPoints(
                    InfluenceAfterMove(
                      PlaceAndReinstate(
                        [b EXCEPT !.largest_radius = Max2(@, dist)],
                        move, old_pos, new_pos),
                      GetColour(move.from), old_pos, new_pos))]

\* MoveTile once the positions are known; dist is the distance of new_pos
\* from the origin
MoveTileTo(b, move, old_pos, new_pos, dist) ==
  IF dist > b.hex_radius_
  THEN [ok |-> FALSE,
        board |-> [b EXCEPT !.largest_radius = Max2(@, dist)]]
  ELSE [ok |-> TRUE,
        board |-> WithArticulationPoints(
                    InfluenceAfterMove(
                      PlaceAndReinstate(
                        [b EXCEPT !.largest_radius = Max2(@, dist)],
                        move, old_pos, new_pos),
                      GetColour(move.from), old_pos, new_pos))]

MoveTileAt(b, move, new_pos) ==
  MoveTileTo(b, move, b.tile_positions_[move.from], new_pos,
             DistanceTo(new_pos, kOriginPosition))

MoveTile(b, move) == MoveTileAt(b, move, MoveTarget(b, move))

\* reset any turn-dependent variables
Pass(b) == [b EXCEPT !.last_moved_ = kNoneTile, !.last_moved_from_ = kNullPosition]

\* the board after construction
HexBoard(board_radius) ==
  LET radius == Min2(board_radius, kMaxBoardRadius)
  IN  [hex_radius_ |-> radius,
       tile_grid_ |-> <<>>,
       played_tiles_ |-> <<>>,
       tile_positions_ |-> [t \in Tiles |-> kNullPosition],
       covered_tiles_ |-> [i \in 0 .. (kNumCoveredSlots - 1) |-> kNoneTile],
       articulation_points_ |-> {},
       largest_radius |-> 0,
       last_moved_ |-> kNoneTile,
       last_moved_from_ |-> kNullPosition,
       colour_influence_ |-> [c \in {kWhite, kBlack} |-> {}]]

(***************************************************************************)
(* Move generation.  The code fills vectors of moves and hash sets of      *)
(* positions; the model builds the sets of their elements.                 *)
(***************************************************************************)
Mv(f, t, d) == [from |-> f, to |-> t, direction |-> d]

\* a Move without a from tile, which IsPass; its other fields are not read
kPassMove == Mv(kNoneTile, kNoneTile, kNumAllDirections)

\* variant: the Queen may be played as the opening tile
PlacementsWithQueenOpening(b, to_move, move_number) ==
  IF move_number = 0
  THEN { Mv(tile, kNoneTile, kAbove) : tile \in GetTilesForColour(to_move) }
  ELSE { Mv(tile, b.played_tiles_[1], i) :
           tile \in GetTilesForColour(to_move), i \in CardinalDirections }

\* variant: a placement next to an opposing tile is allowed
PlacementsIgnoringOpponent(b, to_move, move_number) ==
  IF move_number = 0
  THEN { Mv(tile, kNoneTile, kAbove) :
           tile \in { t \in GetTilesForColour(to_move) : GetBugType(t) # "Queen" } }
  ELSE IF move_number = 1
  THEN { Mv(tile, b.played_tiles_[1], i) :
           tile \in { t \in GetTilesForColour(to_move) : GetBugType(t) # "Queen" },
           i \in CardinalDirections }
  ELSE
    LET queen_placed == move_number >= 8 \/ IsInPlay(b, QueenOf(to_move))
        tiles == { t \in GetTilesForColour(to_move) :
                     /\ ~IsInPlay(b, t)
                     /\ ~( /\ (move_number = 6 \/ move_number = 7)
                           /\ ~queen_placed
                           /\ GetBugType(t) # "Queen" ) }
        spots == { pos \in b.colour_influence_[to_move] : ~HasValue(GetTopTileAt(b, pos)) }
        refs == { x \in spots \X CardinalDirections :
                    HasValue(GetTopTileAt(b, PosAdd(x[1], kNeighbourOffsets[x[2] + 1]))) }
    IN  { Mv(tile, GetTopTileAt(b, PosAdd(x[1], kNeighbourOffsets[x[2] + 1])),
             OppositeDirection(x[2])) : tile \in tiles, x \in refs }

\* GeneratePlacementMoves without the Queen filter of moves 6 and 7
PlacementsWithoutQueenForcing(b, to_move, move_number) ==
  IF move_number = 0
  THEN { Mv(tile, kNoneTile, kAbove) :
           tile \in { t \in GetTilesForColour(to_move) : GetBugType(t) # "Queen" } }
  ELSE IF move_number = 1
  THEN { Mv(tile, b.played_tiles_[1], i) :
           tile \in { t \in GetTilesForColour(to_move) : GetBugType(t) # "Queen" },
           i \in CardinalDirections }
  ELSE
    LET queen_placed == move_number >= 8 \/ IsInPlay(b, QueenOf(to_move))
        tiles == { t \in GetTilesForColour(to_move) :
                     /\ ~IsInPlay(b, t)
                     /\ (queen_placed \/ ~queen_placed) }
        spots == { pos \in b.colour_influence_[to_move] :
                     /\ ~HasValue(GetTopTileAt(b, pos))
                     /\ pos \notin b.colour_influence_[OtherColour(to_move)] }
        refs == { x \in spots \X CardinalDirections :
                    HasValue(GetTopTileAt(b, PosAdd(x[1], kNeighbourOffsets[x[2] + 1]))) }
    IN  { Mv(tile, GetTopTileAt(b, PosAdd(x[1], kNeighbourOffsets[x[2] + 1])),
             OppositeDirection(x[2])) : tile \in tiles, x \in refs }

\* GeneratePlacementMoves with the Queen filter one turn late
PlacementsForcingQueenLate(b, to_move, move_number) ==
  IF move_number = 0
  THEN { Mv(tile, kNoneTile, kAbove) :
           tile \in { t \in GetTilesForColour(to_move) : GetBugType(t) # "Queen" } }
  ELSE IF move_number = 1
  THEN { Mv(tile, b.played_tiles_[1], i) :
           tile \in { t \in GetTilesForColour(to_move) : GetBugType(t) # "Queen" },
           i \in CardinalDirections }
  ELSE
    LET queen_placed == move_number >= 10 \/ IsInPlay(b, QueenOf(to_move))
        tiles == { t \in GetTilesForColour(to_move) :
                     /\ ~IsInPlay(b, t)
                     /\ ~( /\ (move_number = 8 \/ move_number = 9)
                           /\ ~queen_placed
                           /\ GetBugType(t) # "Queen" ) }
        spots == { pos \in b.colour_influence_[to_move] :
                     /\ ~HasValue(GetTopTileAt(b, pos))
                     /\ pos \notin b.colour_influence_[OtherColour(to_move)] }
        refs == { x \in spots \X CardinalDirections :
                    HasValue(GetTopTileAt(b, PosAdd(x[1], kNeighbourOffsets[x[2] + 1]))) }
    IN  { Mv(tile, GetTopTileAt(b, PosAdd(x[1], kNeighbourOffsets[x[2] + 1])),
             OppositeDirection(x[2])) : tile \in tiles, x \in refs }

GeneratePlacementMoves(b, to_move, move_number) ==
  IF move_number = 0
  THEN { Mv(tile, kNoneTile, kAbove) :
           tile \in { t \in GetTilesForColour(to_move) : GetBugType(t) # "Queen" } }
  ELSE IF move_number = 1
  THEN { Mv(tile, b.played_tiles_[1], i) :
           tile \in { t \in GetTilesForColour(to_move) : GetBugType(t) # "Queen" },
           i \in CardinalDirections }
  ELSE
    LET queen_placed == move_number >= 8 \/ IsInPlay(b, QueenOf(to_move))
        tiles == { t \in GetTilesForColour(to_move) :
                     /\ ~IsInPlay(b, t)
                     /\ ~( /\ (move_number = 6 \/ move_number = 7)
                           /\ ~queen_placed
                           /\ GetBugType(t) # "Queen" ) }
        spots == { pos \in b.colour_influence_[to_move] :
                     /\ ~HasValue(GetTopTileAt(b, pos))
                     /\ pos \notin b.colour_influence_[OtherColour(to_move)] }
        refs == { x \in spots \X CardinalDirections :
                    HasValue(GetTopTileAt(b, PosAdd(x[1], kNeighbourOffsets[x[2] + 1]))) }
    IN  { Mv(tile, GetTopTileAt(b, PosAdd(x[1], kNeighbourOffsets[x[2] + 1])),
             OppositeDirection(x[2])) : tile \in tiles, x \in refs }

\* one step of a ground slide from pos in direction dir is allowed
SlideStepValid(b, start_pos, pos, dir) ==
  LET to_test == PosAdd(pos, kNeighbourOffsets[dir + 1])
  IN  ~( \/ HasValue(GetTopTileAt(b, to_test))
         \/ IsGated(b, pos, dir, start_pos)
         \/ ~IsConnected(b, to_test, start_pos) )

RECURSIVE SlideDfs(_, _, _, _, _, _, _)
RECURSIVE SlideLoop(_, _, _, _, _, _, _, _)

\* the first test of the lambda with a limit on the depth at any distance
DfsReturnsAtAnyDistance(visited, distance, pos, depth) ==
  pos \in visited \/ depth > distance

\* the first test of the lambda: it returns at once
DfsReturns(visited, distance, pos, depth) ==
  pos \in visited \/ (~(distance < 0) /\ depth > distance)

\* the first loop of the lambda putting the cells of every depth in out
SlideFirstLoopAtAnyDepth(b, start_pos, distance, st, pos, from, depth) ==
  st.out \cup { PosAdd(pos, kNeighbourOffsets[dir + 1]) :
                  dir \in { d \in CardinalDirections :
                              /\ d # from
                              /\ PosAdd(pos, kNeighbourOffsets[d + 1]) \notin st.visited
                              /\ SlideStepValid(b, start_pos, pos, d) } }

\* the first (breadth-first) loop of the lambda: out after it
SlideFirstLoop(b, start_pos, distance, st, pos, from, depth) ==
  IF depth = distance \/ distance < 0
  THEN st.out \cup { PosAdd(pos, kNeighbourOffsets[dir + 1]) :
                       dir \in { d \in CardinalDirections :
                                   /\ d # from
                                   /\ PosAdd(pos, kNeighbourOffsets[d + 1]) \notin st.visited
                                   /\ SlideStepValid(b, start_pos, pos, d) } }
  ELSE st.out

\* the lambda after its first loop, which left out1 in out
SlideDescend(b, start_pos, distance, st, pos, from, depth, out1) ==
  IF depth = distance
  THEN [st EXCEPT !.out = out1]
  ELSE SlideLoop(b, start_pos, distance,
                 [visited |-> st.visited \cup {pos}, out |-> out1],
                 pos, from, depth, 0)

\* the lambda dfs of GenerateValidSlides; st holds visited and out
SlideDfs(b, start_pos, distance, st, pos, from, depth) ==
  IF DfsReturns(st.visited, distance, pos, depth)
  THEN st
  ELSE SlideDescend(b, start_pos, distance, st, pos, from, depth,
                    SlideFirstLoop(b, start_pos, distance, st, pos, from, depth))

\* the second (depth-first) loop of the lambda, from direction dir on
SlideLoop(b, start_pos, distance, st, pos, from, depth, dir) ==
  LET unlimited_distance == distance < 0
      to_test == PosAdd(pos, kNeighbourOffsets[dir + 1])
  IN  IF dir >= kNumCardinalDirections
      THEN st
      ELSE IF dir = from \/ to_test \in st.visited
              \/ ~SlideStepValid(b, start_pos, pos, dir)
      THEN SlideLoop(b, start_pos, distance, st, pos, from, depth, dir + 1)
      ELSE
        LET st1 == IF depth = distance \/ unlimited_distance
                   THEN [st EXCEPT !.out = @ \cup {to_test}] ELSE st
            st2 == SlideDfs(b, start_pos, distance, st1, to_test,
                            OppositeDirection(dir), depth + 1)
            st3 == IF ~unlimited_distance
                   THEN [st2 EXCEPT !.visited = @ \ {to_test}] ELSE st2
        IN  SlideLoop(b, start_pos, distance, st3, pos, from, depth, dir + 1)

RECURSIVE SlideFlood(_, _, _, _)

\* the search goes on from the cells next that were reached for the first time
SlideFloodOn(b, start_pos, seen, next) ==
  IF next = {} THEN seen \ {start_pos}
  ELSE SlideFlood(b, start_pos, seen \cup next, next)

\* the lambda dfs of GenerateValidSlides for an unlimited distance: visited
\* is never erased and every cell entered was put in out before, so out is
\* the set of cells joined to start_pos by allowed steps.  seen is start_pos
\* and out; frontier the cells whose steps are still to be taken.
SlideFlood(b, start_pos, seen, frontier) ==
  SlideFloodOn(b, start_pos, seen,
               { PosAdd(x[1], kNeighbourOffsets[x[2] + 1]) :
                   x \in { y \in frontier \X CardinalDirections :
                             SlideStepValid(b, start_pos, y[1], y[2]) } } \ seen)

\* the positions a search from start_pos ends with in out
SlideSearch(b, start_pos, distance) ==
  IF distance < 0
  THEN SlideFlood(b, start_pos, {start_pos}, {start_pos})
  ELSE SlideDfs(b, start_pos, distance, [visited |-> {}, out |-> {}],
                start_pos, kNumAllDirections, 1).out

GenerateValidSlides(b, tile, start_pos, distance) ==
  IF IsPinned(b, tile) \/ IsCovered(b, tile)
  THEN {}
  ELSE SlideSearch(b, start_pos, distance)

\* the body of the loop of GenerateValidClimbs with every gate looked for at
\* the height of the mover
ClimbStepGatedAtStart(b, start_pos, d, neighbour, flat, up) ==
  IF HasValue(neighbour)
  THEN IF ~IsGated(b, start_pos, d, kNullPosition) THEN {up} ELSE {}
  ELSE IF flat[3] < start_pos[3]
          /\ ~IsGated(b, start_pos, d, kNullPosition)
       THEN {flat}
       ELSE {}

\* the body of the loop of GenerateValidClimbs for direction d; neighbour is
\* the top tile of the cell flat in that direction
ClimbStep(b, start_pos, d, neighbour, flat, up) ==
  IF HasValue(neighbour)
  THEN IF up[3] > start_pos[3]
          /\ ~IsGated(b, <<start_pos[1], start_pos[2], up[3]>>, d, kNullPosition)
       THEN {up}
       ELSE IF up[3] <= start_pos[3]
               /\ ~IsGated(b, start_pos, d, kNullPosition)
       THEN {up}
       ELSE {}
  ELSE IF flat[3] < start_pos[3]
          /\ ~IsGated(b, start_pos, d, kNullPosition)
       THEN {flat}
       ELSE {}

ClimbOnto(b, start_pos, d, neighbour, flat) ==
  ClimbStep(b, start_pos, d, neighbour, flat,
            NeighbourAt(b.tile_positions_[neighbour], kAbove))

ClimbToward(b, start_pos, d, flat) ==
  ClimbOnto(b, start_pos, d, GetTopTileAt(b, flat), flat)

GenerateValidClimbs(b, tile, start_pos) ==
  IF IsPinned(b, tile) \/ IsCovered(b, tile)
  THEN {}
  ELSE UNION { ClimbToward(b, start_pos, d,
                           PosAdd(Grounded(start_pos), kNeighbourOffsets[d + 1])) :
                 d \in CardinalDirections }

\* the while loop of GenerateValidGrasshopperPositions stopping after the
\* first tile
JumpOverOneTile(b, to_test, d) ==
  IF HasValue(GetTopTileAt(b, to_test))
  THEN PosAdd(to_test, kNeighbourOffsets[d + 1])
  ELSE to_test

RECURSIVE JumpOver(_, _, _)

\* the while loop of GenerateValidGrasshopperPositions
JumpOver(b, to_test, d) ==
  IF HasValue(GetTopTileAt(b, to_test))
  THEN JumpOver(b, PosAdd(to_test, kNeighbourOffsets[d + 1]), d)
  ELSE to_test

GenerateValidGrasshopperPositions(b, tile, start_pos) ==
  IF IsPinned(b, tile) \/ IsCovered(b, tile)
  THEN {}
  ELSE { JumpOver(b, PosAdd(start_pos, kNeighbourOffsets[d + 1]), d) :
           d \in { e \in CardinalDirections :
                     HasValue(GetTopTileAt(b, PosAdd(start_pos, kNeighbourOffsets[e + 1]))) } }

\* one of the three loops of GenerateValidLadybugPositions: the climbs from
\* every position of a set
ClimbsFromAll(b, tile, positions) ==
  UNION { GenerateValidClimbs(b, tile, pos) : pos \in positions }

\* GenerateValidLadybugPositions with a third step taken from every position
\* on top of the hive, the one above the start included
LadybugMayCrossStart(b, tile, start_pos) ==
  IF IsPinned(b, tile) \/ IsCovered(b, tile)
  THEN {}
  ELSE
    { pos \in ClimbsFromAll(b, tile,
                { x \in ClimbsFromAll(b, tile, ClimbsFromAll(b, tile, {start_pos})) :
                    ~(x[3] = 0) }) :
        pos[3] = 0 }

GenerateValidLadybugPositions(b, tile, start_pos) ==
  IF IsPinned(b, tile) \/ IsCovered(b, tile)
  THEN {}
  ELSE
    { pos \in ClimbsFromAll(b, tile,
                { x \in ClimbsFromAll(b, tile, ClimbsFromAll(b, tile, {start_pos})) :
                    ~(x[3] = 0 \/ x = NeighbourAt(start_pos, kAbove)) }) :
        pos[3] = 0 }

\* GenerateValidPillbugSpecials without the test against the tile moved last
PillbugSpecialsOfAnyTile(b, tile, start_pos) ==
  IF IsCovered(b, tile)
  THEN {}
  ELSE
    LET open == { dir \in CardinalDirections :
                    ~IsGated(b, NeighbourAt(start_pos, kAbove), dir, kNullPosition) }
        valid_targets ==
          { t \in { GetTopTileAt(b, PosAdd(start_pos, kNeighbourOffsets[dir + 1])) :
                      dir \in open } :
              /\ HasValue(t)
              /\ ~IsPinned(b, t) /\ ~IsCovered(b, t)
              /\ GetPositionOf(b, t)[3] = 0 }
        valid_positions ==
          { p \in { PosAdd(start_pos, kNeighbourOffsets[dir + 1]) : dir \in open } :
              ~HasValue(GetTopTileAt(b, p)) }
    IN  { Mv(x[1], GetTopTileAt(b, PosAdd(x[2], kNeighbourOffsets[x[3] + 1])),
             OppositeDirection(x[3])) :
            x \in { y \in valid_targets \X valid_positions \X CardinalDirections :
                      LET ref_tile == GetTopTileAt(b, PosAdd(y[2], kNeighbourOffsets[y[3] + 1]))
                      IN  HasValue(ref_tile) /\ ref_tile # y[1] } }

GenerateValidPillbugSpecials(b, tile, start_pos) ==
  IF IsCovered(b, tile)
  THEN {}
  ELSE
    LET open == { dir \in CardinalDirections :
                    ~IsGated(b, NeighbourAt(start_pos, kAbove), dir, kNullPosition) }
        valid_targets ==
          { t \in { GetTopTileAt(b, PosAdd(start_pos, kNeighbourOffsets[dir + 1])) :
                      dir \in open } :
              /\ HasValue(t)
              /\ ~IsPinned(b, t) /\ ~IsCovered(b, t)
              /\ t # b.last_moved_
              /\ GetPositionOf(b, t)[3] = 0 }
        valid_positions ==
          { p \in { PosAdd(start_pos, kNeighbourOffsets[dir + 1]) : dir \in open } :
              ~HasValue(GetTopTileAt(b, p)) }
    IN  { Mv(x[1], GetTopTileAt(b, PosAdd(x[2], kNeighbourOffsets[x[3] + 1])),
             OppositeDirection(x[3])) :
            x \in { y \in valid_targets \X valid_positions \X CardinalDirections :
                      LET ref_tile == GetTopTileAt(b, PosAdd(y[2], kNeighbourOffsets[y[3] + 1]))
                      IN  HasValue(ref_tile) /\ ref_tile # y[1] } }

\* the move that puts tile on top of the stack at to_pos
MovesOnTop(b, tile, to_pos) == { Mv(tile, GetTopTileAt(b, to_pos), kAbove) }

\* the move to the ground cell to_pos with reference to the tile neighbour
\* in direction dir of it
\* MoveBeside with the direction from the destination to the reference
\* tile, not the opposite one
MoveBesideSameDirection(b, tile, start_pos, dir, neighbour) ==
  IF ~HasValue(neighbour) THEN {}
  ELSE IF start_pos[3] > 0 /\ neighbour = tile
  THEN { Mv(tile, GetTileBelow(b, start_pos), dir) }
  ELSE IF neighbour # tile
  THEN { Mv(tile, neighbour, dir) }
  ELSE {}

MoveBeside(b, tile, start_pos, dir, neighbour) ==
  IF ~HasValue(neighbour) THEN {}
  ELSE IF start_pos[3] > 0 /\ neighbour = tile
  THEN { Mv(tile, GetTileBelow(b, start_pos), OppositeDirection(dir)) }
  ELSE IF neighbour # tile
  THEN { Mv(tile, neighbour, OppositeDirection(dir)) }
  ELSE {}

MovesOnGround(b, tile, start_pos, to_pos) ==
  UNION { MoveBeside(b, tile, start_pos, dir,
                     GetTopTileAt(b, PosAdd(to_pos, kNeighbourOffsets[dir + 1]))) :
            dir \in CardinalDirections }

\* the last part of GenerateMovesFor: positions turned into moves
PositionsToMoves(b, tile, start_pos, positions) ==
  UNION { IF to_pos[3] > 0
          THEN MovesOnTop(b, tile, to_pos)
          ELSE MovesOnGround(b, tile, start_pos, to_pos) :
            to_pos \in positions }

RECURSIVE MosquitoTypesWithoutQueen(_, _, _, _)
\* the loop of GenerateValidMosquitoPositions with Queen and Spider skipped
\* whether or not an Ant was seen
MosquitoTypesWithoutQueen(ns, i, seen, acc) ==
  IF i > Len(ns) THEN acc
  ELSE
    LET type == GetBugType(ns[i])
    IN  IF type \in seen
        THEN MosquitoTypesWithoutQueen(ns, i + 1, seen, acc)
        ELSE IF type = "Mosquito"
        THEN MosquitoTypesWithoutQueen(ns, i + 1, seen \cup {type}, acc)
        ELSE IF type = "Queen" \/ type = "Spider"
        THEN MosquitoTypesWithoutQueen(ns, i + 1, seen \cup {type}, acc)
        ELSE MosquitoTypesWithoutQueen(ns, i + 1, seen \cup {type}, acc \cup {type})

\* the bug types a ground Mosquito acts as, in the order the code meets them;
\* seen is types_seen, acc the types GenerateMovesFor is called with
RECURSIVE MosquitoTypes(_, _, _, _)
MosquitoTypes(ns, i, seen, acc) ==
  IF i > Len(ns) THEN acc
  ELSE
    LET type == GetBugType(ns[i])
    IN  IF type \in seen
        THEN MosquitoTypes(ns, i + 1, seen, acc)
        ELSE IF type = "Mosquito"
        THEN MosquitoTypes(ns, i + 1, seen \cup {type}, acc)
        ELSE IF (type = "Queen" \/ type = "Spider") /\ "Ant" \in seen
        THEN MosquitoTypes(ns, i + 1, seen \cup {type}, acc)
        ELSE MosquitoTypes(ns, i + 1, seen \cup {type}, acc \cup {type})

RECURSIVE GenerateMovesFor(_, _, _, _)

\* the distance handed to GenerateValidSlides for an acting type
SlideDistance(acting_type) ==
  CASE acting_type = "Ant" -> -1
    [] acting_type = "Spider" -> 3
    [] OTHER -> 1

\* the switch of GenerateMovesFor: the positions the acting type reaches.
\* Queen, Ant, Spider and Pillbug slide, and so does a Beetle on the ground.
ValidPositions(b, tile, start_pos, acting_type) ==
  (IF \/ acting_type \in {"Queen", "Ant", "Spider", "Pillbug"}
      \/ acting_type = "Beetle" /\ start_pos[3] = 0
   THEN GenerateValidSlides(b, tile, start_pos, SlideDistance(acting_type))
   ELSE {})
  \cup (IF acting_type = "Beetle"
        THEN GenerateValidClimbs(b, tile, start_pos) ELSE {})
  \cup (IF acting_type = "Grasshopper"
        THEN GenerateValidGrasshopperPositions(b, tile, start_pos) ELSE {})
  \cup (IF acting_type = "Ladybug"
        THEN GenerateValidLadybugPositions(b, tile, start_pos) ELSE {})

\* GenerateMovesFor for the tile at start_pos
MovesFrom(b, tile, start_pos, acting_type) ==
  (IF acting_type = "Pillbug"
   THEN GenerateValidPillbugSpecials(b, tile, start_pos) ELSE {})
  \cup PositionsToMoves(b, tile, start_pos,
                        ValidPositions(b, tile, start_pos, acting_type))

\* GenerateMovesFor for every acting type but the Mosquito
GenerateMovesForType(b, tile, acting_type) ==
  MovesFrom(b, tile, b.tile_positions_[tile], acting_type)

\* Can copy the movement capabilities of any adjacent bug type
GenerateValidMosquitoPositions(b, tile, start_pos, to_move) ==
  IF IsCovered(b, tile)
  THEN {}
  ELSE IF start_pos[3] > 0
  THEN GenerateMovesFor(b, tile, "Beetle", to_move)
  ELSE UNION { GenerateMovesFor(b, tile, type, to_move) :
                 type \in MosquitoTypes(NeighboursOf(b, start_pos, kNullPosition),
                                        1, {}, {}) }

GenerateMovesFor(b, tile, acting_type, to_move) ==
  IF acting_type = "Mosquito"
  THEN GenerateValidMosquitoPositions(b, tile, b.tile_positions_[tile], to_move)
  ELSE GenerateMovesForType(b, tile, acting_type)

\* GenerateAllMoves without the check that the Queen is in play
MovesWithoutQueenCheck(b, to_move, move_number) ==
  GeneratePlacementMoves(b, to_move, move_number)
  \cup UNION { GenerateMovesFor(b, b.played_tiles_[i], GetBugType(b.played_tiles_[i]),
                                to_move) :
                 i \in { j \in 1 .. Len(b.played_tiles_) :
                           /\ GetColour(b.played_tiles_[j]) = to_move
                           /\ b.played_tiles_[j] # b.last_moved_ } }

\* GenerateAllMoves without the check against the tile moved last
MovesIncludingLastMoved(b, to_move, move_number) ==
  GeneratePlacementMoves(b, to_move, move_number)
  \cup (IF IsInPlay(b, QueenOf(to_move))
        THEN UNION { GenerateMovesFor(b, b.played_tiles_[i], GetBugType(b.played_tiles_[i]),
                                      to_move) :
                       i \in { j \in 1 .. Len(b.played_tiles_) :
                                 GetColour(b.played_tiles_[j]) = to_move } }
        ELSE {})

GenerateAllMoves(b, to_move, move_number) ==
  GeneratePlacementMoves(b, to_move, move_number)
  \cup (IF IsInPlay(b, QueenOf(to_move))
        THEN UNION { GenerateMovesFor(b, b.played_tiles_[i], GetBugType(b.played_tiles_[i]),
                                      to_move) :
                       i \in { j \in 1 .. Len(b.played_tiles_) :
                                 /\ GetColour(b.played_tiles_[j]) = to_move
                                 /\ b.played_tiles_[j] # b.last_moved_ } }
        ELSE {})

(***************************************************************************)
(* HiveState                                                               *)
(***************************************************************************)
PassAction == kNumDistinctActions - 1

IsPass(move) == ~HasValue(move.from)

\* ActionToMove without the special case of the first turn
ActionToMoveKeepingTo(action) ==
  IF action = PassAction
  THEN Mv(kNoneTile, kNoneTile, kNumAllDirections)
  ELSE Mv(action \div (kMaxTileCount * kNumAllDirections),
          (action \div kNumAllDirections) % kMaxTileCount,
          action % kNumAllDirections)

ActionToMove(action) ==
  IF action = PassAction
  THEN Mv(kNoneTile, kNoneTile, kNumAllDirections)
  ELSE
    LET direction == action % kNumAllDirections
        to == (action \div kNumAllDirections) % kMaxTileCount
        from == action \div (kMaxTileCount * kNumAllDirections)
    IN  IF from = to /\ direction = kAbove
        THEN Mv(from, kNoneTile, direction)
        ELSE Mv(from, to, direction)

MoveToAction(move) ==
  IF IsPass(move)
  THEN PassAction
  ELSE IF ~HasValue(move.to)
  THEN (move.from * (kMaxTileCount * kNumAllDirections))
       + (move.from * kNumAllDirections) + kAbove
  ELSE (move.from * (kMaxTileCount * kNumAllDirections))
       + (move.to * kNumAllDirections) + move.direction

(***************************************************************************)
(* UHP text.  A string is a sequence of characters.                        *)
(***************************************************************************)
kPassText == <<"p", "a", "s", "s">>

\* the outcome of a call that ends the process: SpielFatalError, a failed
\* SPIEL_CHECK or an exception
kFatal == -1

GetOrdinal(t) ==
  IF t = kNoneTile THEN 0
  ELSE IF t \in {wA2, wG2, wS2, wB2, bA2, bG2, bS2, bB2} THEN 2
  ELSE IF t \in {wA3, wG3, bA3, bG3} THEN 3
  ELSE 1

\* absl::StrAppend of an ordinal: its decimal digit
OrdinalText(n) == << <<"0">>, <<"1">>, <<"2">>, <<"3">> >>[n + 1]

\* the letter NewHiveTile::ToUHP appends for a bug type
BugLetter(type) ==
  CASE type = "Queen" -> "Q"
    [] type = "Ant" -> "A"
    [] type = "Grasshopper" -> "G"
    [] type = "Spider" -> "S"
    [] type = "Beetle" -> "B"
    [] type = "Ladybug" -> "L"
    [] type = "Mosquito" -> "M"
    [] type = "Pillbug" -> "P"

\* NewHiveTile::ToUHP
ToUHP(t) ==
  << IF GetColour(t) = kWhite THEN "w" ELSE "b" >>
  \o << BugLetter(GetBugType(t)) >>
  \o (IF GetBugType(t) \in {"Ant", "Grasshopper", "Spider", "Beetle"}
      THEN OrdinalText(GetOrdinal(t)) ELSE <<>>)

\* string_mapping of UHPToTile, in the order of the tiles
kStringMapping ==
  << <<"w", "Q">>,
     <<"w", "A", "1">>, <<"w", "A", "2">>, <<"w", "A", "3">>,
     <<"w", "G", "1">>, <<"w", "G", "2">>, <<"w", "G", "3">>,
     <<"w", "S", "1">>, <<"w", "S", "2">>,
     <<"w", "B", "1">>, <<"w", "B", "2">>,
     <<"w", "M">>, <<"w", "L">>, <<"w", "P">>,
     <<"b", "Q">>,
     <<"b", "A", "1">>, <<"b", "A", "2">>, <<"b", "A", "3">>,
     <<"b", "G", "1">>, <<"b", "G", "2">>, <<"b", "G", "3">>,
     <<"b", "S", "1">>, <<"b", "S", "2">>,
     <<"b", "B", "1">>, <<"b", "B", "2">>,
     <<"b", "M">>, <<"b", "L">>, <<"b", "P">> >>

\* NewHiveTile::UHPToTile; kFatal when the text is not in the mapping
UHPToTile(uhp) ==
  IF \E t \in Tiles : kStringMapping[t + 1] = uhp
  THEN CHOOSE t \in Tiles : kStringMapping[t + 1] = uhp
  ELSE kFatal

\* the reference tile with the mark of the direction before or after it
OffsetFormatted(reference_tile_uhp, direction) ==
  CASE direction = kNE -> reference_tile_uhp \o <<"/">>
    [] direction = kE -> reference_tile_uhp \o <<"-">>
    [] direction = kSE -> reference_tile_uhp \o <<"\\">>
    [] direction = kSW -> <<"/">> \o reference_tile_uhp
    [] direction = kW -> <<"-">> \o reference_tile_uhp
    [] direction = kNW -> <<"\\">> \o reference_tile_uhp
    [] direction = kAbove -> reference_tile_uhp

\* the text that stands for a call that ended the process
kFatalText == <<"!">>

\* Move::ToUHP
MoveToUHP(move) ==
  IF IsPass(move) THEN kPassText
  ELSE IF ~HasValue(move.to) THEN ToUHP(move.from)
  ELSE IF move.direction \notin 0 .. kAbove THEN kFatalText
  ELSE ToUHP(move.from) \o <<" ">> \o OffsetFormatted(ToUHP(move.to), move.direction)

ActionToString(action_id) == MoveToUHP(ActionToMove(action_id))

\* absl::StrSplit: the pieces of str between the occurrences of delimiter
RECURSIVE StrSplit(_, _)
StrSplit(str, delimiter) ==
  IF \E k \in 1 .. Len(str) : str[k] = delimiter
  THEN LET first == CHOOSE k \in 1 .. Len(str) :
                      /\ str[k] = delimiter
                      /\ \A j \in 1 .. (k - 1) : str[j] # delimiter
       IN  << SubSeq(str, 1, first - 1) >>
           \o StrSplit(SubSeq(str, first + 1, Len(str)), delimiter)
  ELSE << str >>

\* the direction a mark before the reference tile stands for
DirectionOfPrefix(c) ==
  CASE c = "\\" -> kNW
    [] c = "-" -> kW
    [] c = "/" -> kSW
    [] OTHER -> kNumAllDirections

\* DirectionOfSuffix with the marks for kNE and kSE exchanged
DirectionOfSuffixExchanged(c) ==
  CASE c = "\\" -> kNE
    [] c = "-" -> kE
    [] c = "/" -> kSE
    [] OTHER -> kNumAllDirections

\* the direction a mark after the reference tile stands for
DirectionOfSuffix(c) ==
  CASE c = "\\" -> kSE
    [] c = "-" -> kE
    [] c = "/" -> kNE
    [] OTHER -> kNumAllDirections

\* the direction StringToAction reads from the second word, which is not
\* empty: the first character, else the last one, else above
ReadDirection(word) ==
  LET before == DirectionOfPrefix(word[1])
      after == IF before = kNumAllDirections
               THEN DirectionOfSuffix(word[Len(word)]) ELSE before
  IN  IF after = kNumAllDirections THEN kAbove ELSE after

\* the second word between find_first_not_of and find_last_not_of the
\* marks; kFatalText when it holds marks only
ReadReference(word) ==
  LET plain == { k \in 1 .. Len(word) : word[k] \notin {"\\", "-", "/"} }
  IN  IF plain = {} THEN kFatalText
      ELSE SubSeq(word, CHOOSE k \in plain : \A j \in plain : k <= j,
                        CHOOSE k \in plain : \A j \in plain : k >= j)

\* StringToAction once the from tile is read, for a second word
StringToActionWith(from, word) ==
  IF word = <<>> THEN kFatal
  ELSE IF UHPToTile(ReadReference(word)) = kFatal THEN kFatal
  ELSE MoveToAction(Mv(from, UHPToTile(ReadReference(word)), ReadDirection(word)))

\* HiveState::StringToAction; a second word that is empty is not modelled
\* apart from other failures, ActionToString writes none
StringToAction(move_str) ==
  IF move_str = kPassText THEN PassAction
  ELSE
    LET bugs == StrSplit(move_str, " ")
    IN  IF Len(bugs) > 2 \/ UHPToTile(bugs[1]) = kFatal THEN kFatal
        ELSE IF Len(bugs) = 1
        THEN MoveToAction(Mv(UHPToTile(bugs[1]), kNoneTile, kNumAllDirections))
        ELSE StringToActionWith(UHPToTile(bugs[1]), bugs[2])

\* variant: no pass is offered when nothing is generated
LegalActionsWithoutPass(b, player, move_number) ==
  { MoveToAction(m) : m \in GenerateAllMoves(b, PlayerToColour(player), move_number) }

\* the end of LegalActions: a pass when no action was generated
OrPass(unique_actions) ==
  IF unique_actions = {} THEN {PassAction} ELSE unique_actions

LegalActionsOf(b, player, move_number) ==
  OrPass({ MoveToAction(m) :
             m \in GenerateAllMoves(b, PlayerToColour(player), move_number) })

WinConditionMetOn(b, player) == IsQueenSurrounded(b, OtherColour(PlayerToColour(player)))

(***************************************************************************)
(* The game object made from the game parameters board_size, m, l and p.   *)
(***************************************************************************)
kDefaultParameters == [board_size |-> kDefaultBoardRadius, m |-> TRUE, l |-> TRUE, p |-> TRUE]

HiveGame(params) ==
  LET expansions == [uses_mosquito |-> params.m, uses_ladybug |-> params.l,
                     uses_pillbug |-> params.p]
      enabled == { e \in {"m", "l", "p"} : params[e] }
  IN  [game_parameters_ |-> params,
       board_radius_ |-> kDefaultBoardRadius,
       expansions_ |-> expansions,
       num_bug_types_ |-> kDefaultNumBugTypes + Cardinality(enabled)]

(***************************************************************************)
(* The state: the game, the members of HiveState, move_number_ of its base class,    *)
(* the line of play the driver follows, and the action id and the text of  *)
(* the test of the action texts.                                           *)
(***************************************************************************)
VARIABLES game_, board_, current_player_, move_number_, force_terminal_,
          script, action_id, a_to_s, search

vars == <<game_, board_, current_player_, move_number_, force_terminal_,
          script, action_id, a_to_s, search>>

\* everything but the call followed
state_vars == <<game_, board_, current_player_, move_number_, force_terminal_,
                script, action_id, a_to_s>>

\* the member of HiveState copied from the game
expansions_ == game_.expansions_

BugTypeIsEnabled(type) ==
  CASE type \in {"Queen", "Ant", "Grasshopper", "Spider", "Beetle"} -> TRUE
    [] type = "Mosquito" -> expansions_.uses_mosquito
    [] type = "Ladybug" -> expansions_.uses_ladybug
    [] type = "Pillbug" -> expansions_.uses_pillbug
    [] OTHER -> FALSE

ObservationTensorShape ==
  << game_.num_bug_types_ * kNumPlayers + 2 + 2 + 2,
     2 * game_.board_radius_ + 1,
     2 * game_.board_radius_ + 1 >>

WinConditionMet(player) == WinConditionMetOn(board_, player)

\* IsTerminal without the limit on the length of the game
IsTerminalWithoutLength ==
  \/ WinConditionMet(kWhite)
  \/ WinConditionMet(kBlack)
  \/ force_terminal_

IsTerminal ==
  \/ WinConditionMet(kWhite)
  \/ WinConditionMet(kBlack)
  \/ move_number_ >= kMaxGameLength
  \/ force_terminal_

CurrentPlayer == IF IsTerminal THEN kTerminalPlayerId ELSE current_player_

\* Returns with the two players' results exchanged
ReturnsExchanged ==
  LET white_winner == WinConditionMet(kWhite)
      black_winner == WinConditionMet(kBlack)
  IN  IF white_winner # black_winner
      THEN <<IF black_winner THEN 1 ELSE -1, IF white_winner THEN 1 ELSE -1>>
      ELSE <<0, 0>>

Returns ==
  LET white_winner == WinConditionMet(kWhite)
      black_winner == WinConditionMet(kBlack)
  IN  IF white_winner # black_winner
      THEN <<IF white_winner THEN 1 ELSE -1, IF black_winner THEN 1 ELSE -1>>
      ELSE <<0, 0>>

\* the bug types in the order of enum BugType
kBugTypeOrder ==
  << "Queen", "Ant", "Grasshopper", "Spider", "Beetle", "Mosquito", "Ladybug",
     "Pillbug" >>

kNumBugTypes == 8

\* the number of enabled bug types before type, or -1 for a type that is
\* not enabled
BugTypeToTensorIndex(type) ==
  LET at == { i \in 1 .. kNumBugTypes : kBugTypeOrder[i] = type }
  IN  IF at = {} \/ ~BugTypeIsEnabled(type) THEN -1
      ELSE LET i == CHOOSE i \in at : TRUE
           IN  Cardinality({ j \in 1 .. (i - 1) : BugTypeIsEnabled(kBugTypeOrder[j]) })

AxialToTensorIndex(pos) == << pos[2] + Radius(board_), pos[1] + Radius(board_) >>

\* the cells ObservationTensor sets to 1 for player, each with the feature
\* it stands for: the planes of the bug types, of the pinned and of the
\* covered tiles from the tiles played, the planes of the placeable cells
\* from the cells of the board.  The first planes of the features are those
\* of the first call made
ObservationTensor(player) ==
  LET bug_idx == 0
      articulation_idx == game_.num_bug_types_ * kNumPlayers
      placeable_idx == articulation_idx + 2
      covered_idx == placeable_idx + 2
      my_colour == PlayerToColour(player)
      opposing_colour == OtherColour(my_colour)
      radius == Radius(board_)
      OfTile(tile) ==
        LET pos == GetPositionOf(board_, tile)
            indices == AxialToTensorIndex(pos)
            is_opposing == GetColour(tile) = opposing_colour
        IN  { [feature |-> GetBugType(tile), opposing |-> is_opposing,
               plane |-> bug_idx + BugTypeToTensorIndex(GetBugType(tile))
                           + (IF is_opposing THEN kNumBugTypes ELSE 0),
               indices |-> indices] }
              \cup (IF IsPinnedPos(board_, pos)
                    THEN { [feature |-> "pinned", opposing |-> is_opposing,
                            plane |-> articulation_idx + (IF is_opposing THEN 1 ELSE 0),
                            indices |-> indices] }
                    ELSE {})
              \cup (IF IsCovered(board_, tile)
                    THEN { [feature |-> "covered", opposing |-> is_opposing,
                            plane |-> covered_idx + (IF is_opposing THEN 1 ELSE 0),
                            indices |-> indices] }
                    ELSE {})
      OfCell(q, r) ==
        LET pos == <<q, r, 0>>
            indices == AxialToTensorIndex(pos)
        IN  IF IsPlaceable(board_, my_colour, pos)
            THEN { [feature |-> "placeable", opposing |-> FALSE,
                    plane |-> placeable_idx, indices |-> indices] }
            ELSE IF IsPlaceable(board_, opposing_colour, pos)
            THEN { [feature |-> "placeable", opposing |-> TRUE,
                    plane |-> placeable_idx + 1, indices |-> indices] }
            ELSE {}
  IN  UNION { OfTile(board_.played_tiles_[i]) : i \in DOMAIN board_.played_tiles_ }
        \cup UNION { OfCell(q, r) : q \in -radius .. radius, r \in -radius .. radius }

\* the text of the type of the game, letter by letter
kDefaultUHPGameType == << "B", "a", "s", "e", "+", "P", "L", "M" >>

\* the first field of Serialize
GameTypeString == kDefaultUHPGameType

\* the text of the progress of the game
ProgressString ==
  IF move_number_ = 0 THEN "NotStarted"
  ELSE IF move_number_ > kMaxGameLength THEN "Draw"
  ELSE LET white_winner == WinConditionMet(kPlayerWhite)
           black_winner == WinConditionMet(kPlayerBlack)
       IN  IF white_winner # black_winner
           THEN IF white_winner THEN "WhiteWins" ELSE "BlackWins"
           ELSE IF white_winner /\ black_winner THEN "Draw"
           ELSE "InProgress"

\* the text of the turn: the colour and the number between the brackets
TurnString ==
  [colour |-> IF current_player_ = kPlayerWhite THEN "White" ELSE "Black",
   number |-> (move_number_ + 2) \div 2]

GeneratedMoves == GenerateAllMoves(board_, PlayerToColour(current_player_), move_number_)

LegalActions == LegalActionsOf(board_, current_player_, move_number_)

(***************************************************************************)
(* Lines of play.  A driver applies legal actions only; it follows one of  *)
(* the openings below move by move and then plays on freely for            *)
(* MaxFreeMoves moves, putting into play only the Queen and the lowest     *)
(* other tile of the hand that may be placed.  Opening 0 is the empty one. *)
(***************************************************************************)
MaxFreeMoves == 1

\* four tiles in a line, then each Queen steps aside and back in turn
LongPlay ==
  LET start == << Mv(wA1, kNoneTile, kAbove), Mv(bA1, wA1, kE), Mv(wQ, wA1, kW),
                  Mv(bQ, bA1, kE) >>
      round == << Mv(wQ, wA1, kSW), Mv(bQ, bA1, kNE), Mv(wQ, wA1, kW),
                  Mv(bQ, bA1, kE) >>
  IN  [i \in 1 .. kMaxGameLength |->
         IF i <= Len(start) THEN start[i] ELSE round[((i - Len(start) - 1) % Len(round)) + 1]]

Openings ==
  << \* 1: White keeps its Queen in hand, Black plays its Queen on its second turn
     << Mv(wA1, kNoneTile, kAbove), Mv(bA1, wA1, kE), Mv(wG1, wA1, kW),
        Mv(bQ, bA1, kE), Mv(wG2, wG1, kW) >>,
     \* 2: a Black Beetle climbs onto White's first tile; White is left
     \*    without a move and passes
     << Mv(wA1, kNoneTile, kAbove), Mv(bB1, wA1, kE), Mv(wQ, wA1, kW),
        Mv(bQ, bB1, kNE), Mv(wQ, wA1, kNW), Mv(bB2, bQ, kNW),
        Mv(wQ, wA1, kNE), Mv(bB1, wA1, kAbove), kPassMove >>,
     \* 3: White's Pillbug sits between its Queen and a pinned Black Ant
     << Mv(wP, kNoneTile, kAbove), Mv(bA1, wP, kE), Mv(wQ, wP, kW),
        Mv(bQ, bA1, kNE) >>,
     \* 4: Black's Queen walks round to White's Pillbug, which may then
     \*    throw the Black Ant next to it
     << Mv(wP, kNoneTile, kAbove), Mv(bA1, wP, kE), Mv(wQ, wP, kW),
        Mv(bQ, bA1, kE), Mv(wA1, wQ, kW), Mv(bQ, bA1, kSE),
        Mv(wA2, wA1, kW), Mv(bQ, wP, kSE) >>,
     \* 5: opening 2 with White's Pillbug as its first tile, carried on: the
     \*    second Black Beetle climbs White's Queen and then the stack on
     \*    the Pillbug
     << Mv(wP, kNoneTile, kAbove), Mv(bB1, wP, kE), Mv(wQ, wP, kW),
        Mv(bQ, bB1, kNE), Mv(wQ, wP, kNW), Mv(bB2, bQ, kNW),
        Mv(wQ, wP, kNE), Mv(bB1, wP, kAbove), kPassMove,
        Mv(bB2, wQ, kAbove), kPassMove, Mv(bB2, bB1, kAbove) >>,
     \* 6: Grasshopper, Spider, Mosquito and Ladybug on the board with both
     \*    Queens in play
     << Mv(wG1, kNoneTile, kAbove), Mv(bS1, wG1, kE), Mv(wQ, wG1, kW),
        Mv(bQ, bS1, kE), Mv(wM, wQ, kNW), Mv(bL, bQ, kNE),
        Mv(wL, wQ, kSW), Mv(bM, bQ, kSE) >>,
     \* 7: neither Queen is in play after three turns each; White then
     \*    places its Queen
     << Mv(wA1, kNoneTile, kAbove), Mv(bA1, wA1, kE), Mv(wA2, wA1, kW),
        Mv(bA2, bA1, kE), Mv(wA3, wA2, kW), Mv(bA3, bA2, kE),
        Mv(wQ, wA3, kW) >>,
     \* 8: a White Mosquito next to White's Pillbug, both Queens in play
     << Mv(wP, kNoneTile, kAbove), Mv(bG1, wP, kE), Mv(wQ, wP, kW),
        Mv(bQ, bG1, kE), Mv(wM, wP, kNW), Mv(bA1, bQ, kNE) >>,
     \* 9: Black closes the ring round its own Queen
     << Mv(wA1, kNoneTile, kAbove), Mv(bA1, wA1, kE), Mv(wQ, wA1, kW),
        Mv(bQ, bA1, kE), Mv(wA2, wQ, kW), Mv(bA2, bQ, kE),
        Mv(wA3, wA2, kW), Mv(bA3, bQ, kNE), Mv(wG1, wA3, kW),
        Mv(bG1, bQ, kSE), Mv(wG2, wG1, kW), Mv(bG2, bQ, kSW),
        Mv(wG3, wG2, kW), Mv(bG3, bQ, kNW) >>,
     \* 10: White closes the ring round its own Queen
     << Mv(wA1, kNoneTile, kAbove), Mv(bA1, wA1, kE), Mv(wQ, wA1, kW),
        Mv(bQ, bA1, kE), Mv(wA2, wQ, kW), Mv(bA2, bQ, kE),
        Mv(wA3, wQ, kNW), Mv(bA3, bA2, kE), Mv(wG1, wQ, kSW),
        Mv(bG1, bA3, kE), Mv(wG2, wQ, kNE), Mv(bG2, bG1, kE),
        Mv(wG3, wQ, kSE) >>,
     \* 11: the Queens share one empty neighbour cell, and a White
     \*     Grasshopper jumps into it when every other cell round them is taken
     << Mv(wA1, kNoneTile, kAbove), Mv(bA1, wA1, kE), Mv(wQ, wA1, kNW),
        Mv(bQ, bA1, kNE), Mv(wA2, wQ, kNE), Mv(bG1, bQ, kE),
        Mv(wA3, wA1, kW), Mv(bG2, bQ, kSE), Mv(wS1, wQ, kW),
        Mv(bS1, bQ, kNE), Mv(wS2, wQ, kNW), Mv(bA2, bS1, kE),
        Mv(wG1, wA2, kNW), Mv(bA2, bQ, kNW), Mv(wG1, wA2, kSE) >>,
     \* 12: a straight line, White to the west and Black to the east, until
     \*     Black puts a tile beyond the edge of the board
     << Mv(wA1, kNoneTile, kAbove), Mv(bA1, wA1, kE), Mv(wQ, wA1, kW),
        Mv(bQ, bA1, kE), Mv(wA2, wQ, kW), Mv(bA2, bQ, kE),
        Mv(wA3, wA2, kW), Mv(bA3, bA2, kE), Mv(wG1, wA3, kW),
        Mv(bG1, bA3, kE), Mv(wG2, wG1, kW), Mv(bG2, bG1, kE),
        Mv(wG3, wG2, kW), Mv(bG3, bG2, kE), Mv(wS1, wG3, kW),
        Mv(bS1, bG3, kE), Mv(wS2, wS1, kW), Mv(bS2, bS1, kE) >>,
     \* 13: the Queens step to and fro until the game has its full length
     LongPlay
  >>

OpeningOf(k) == IF k = 0 THEN <<>> ELSE Openings[k]

\* the lowest tile of a set
Lowest(placed) == { t \in placed : \A u \in placed : t <= u }

\* the tiles a free move may put into play: the Queen and the lowest other
\* tile, where the rules allow them
HandChoices(legal) ==
  LET placeable == { t \in Tiles : /\ ~IsInPlay(board_, t)
                                   /\ \E a \in legal : ActionToMove(a).from = t }
  IN  Lowest(placeable) \cup Lowest({ t \in placeable : GetBugType(t) # "Queen" })

\* the legal actions a free move is chosen from
FreeActions(legal, hand) ==
  { a \in legal :
      \/ a = PassAction
      \/ IsInPlay(board_, ActionToMove(a).from)
      \/ ActionToMove(a).from \in hand }

\* the actions explored among the legal ones
ExploredAmong(legal) ==
  IF move_number_ < Len(OpeningOf(script))
  THEN { MoveToAction(OpeningOf(script)[move_number_ + 1]) } \cap legal
  ELSE FreeActions(legal, HandChoices(legal))

ExploredActions ==
  IF IsTerminal THEN {}
  ELSE IF move_number_ >= Len(OpeningOf(script)) + MaxFreeMoves THEN {}
  ELSE ExploredAmong(LegalActions)

\* the game parameters an opening is played with: the default ones; for the
\* empty opening and the one that starts with a Pillbug also the game
\* without the three later bugs; for the empty opening also the smallest
\* and the largest board of the test
kBaseGame == [kDefaultParameters EXCEPT !.m = FALSE, !.l = FALSE, !.p = FALSE]

kSmallBoard == 3

kLargeBoard == 13

ParametersOf(k) ==
  {kDefaultParameters}
    \cup (IF k \in {0, 5} THEN {kBaseGame} ELSE {})
    \cup (IF k = 0
          THEN { [kDefaultParameters EXCEPT !.board_size = n] :
                   n \in {kSmallBoard, kLargeBoard} }
          ELSE {})

\* LoadGame and Game::NewInitialState
NewInitialState(params) ==
  /\ game_ = HiveGame(params)
  /\ board_ = HexBoard(game_.board_radius_)
  /\ current_player_ = kWhite
  /\ move_number_ = 0
  /\ force_terminal_ = FALSE

\* no call of a generator is followed
kNoSearch == [pc |-> "none"]

Init ==
  /\ script \in 0 .. Len(Openings)
  /\ \E params \in ParametersOf(script) : NewInitialState(params)
  /\ search = kNoSearch
  /\ action_id = 0
  /\ a_to_s = <<>>

\* the board DoApplyAction leaves, and whether the move was carried out
DoApplyAction(b, action) ==
  IF action = PassAction
  THEN [ok |-> TRUE, board |-> Pass(b)]
  ELSE MoveTile(b, ActionToMove(action))

\* DoApplyAction once MoveTile has returned result
AfterMoveTile(result) ==
  /\ board_' = result.board
  /\ force_terminal_' = (force_terminal_ \/ ~result.ok)

\* ApplyAction with a pass that leaves the turn where it is
ApplyActionPassKeepsTurn(action) ==
  /\ IF action = PassAction
     THEN /\ board_' = Pass(board_)
          /\ force_terminal_' = force_terminal_
          /\ current_player_' = current_player_
     ELSE /\ AfterMoveTile(MoveTile(board_, ActionToMove(action)))
          /\ current_player_' = (current_player_ + 1) % 2
  /\ move_number_' = move_number_ + 1
  /\ UNCHANGED <<game_, script, action_id, a_to_s, search>>

\* State::ApplyAction: DoApplyAction, then the move counter
ApplyAction(action) ==
  /\ IF action = PassAction
     THEN /\ board_' = Pass(board_)
          /\ force_terminal_' = force_terminal_
     ELSE AfterMoveTile(MoveTile(board_, ActionToMove(action)))
  /\ current_player_' = (current_player_ + 1) % 2
  /\ move_number_' = move_number_ + 1
  /\ UNCHANGED <<game_, script, action_id, a_to_s, search>>

Next == \E action \in ExploredActions : ApplyAction(action)

Spec == Init /\ [][Next]_vars

(***************************************************************************)
(* The test of the action texts: for every action id in turn the text of   *)
(* the action is written and then read back on the initial state.          *)
(***************************************************************************)
TestInit ==
  /\ NewInitialState(kDefaultParameters)
  /\ script = 0
  /\ search = kNoSearch
  /\ action_id = 0
  /\ a_to_s = <<>>

\* std::string a_to_s = state->ActionToString(i)
WriteText ==
  /\ action_id < kNumDistinctActions
  /\ a_to_s = <<>>
  /\ a_to_s' = ActionToString(action_id)
  /\ UNCHANGED <<game_, board_, current_player_, move_number_, force_terminal_,
                 script, action_id, search>>

\* SPIEL_CHECK_EQ(i, state->StringToAction(a_to_s)), then the next i
ReadText ==
  /\ a_to_s # <<>>
  /\ StringToAction(a_to_s) = action_id
  /\ action_id' = action_id + 1
  /\ a_to_s' = <<>>
  /\ UNCHANGED <<game_, board_, current_player_, move_number_, force_terminal_,
                 script, search>>

TestNext == WriteText \/ ReadText

TestSpec == TestInit /\ [][TestNext]_vars

(***************************************************************************)
(* One call of a generator of positions by GenerateMovesFor, on the board   *)
(* an opening leaves after some of its moves.  GenerateValidSlides is      *)
(* followed statement by statement.  search holds the arguments of the     *)
(* call, visited, out, and the frames of the lambda dfs:                   *)
(* pos, from and depth, the direction dir of its second loop and where the *)
(* frame stands (enter: before its first test, loop: in its second loop,   *)
(* back: in its second loop with a call of dfs under way).                 *)
(***************************************************************************)
\* two Beetles climb onto the tiles on either side of the way from White's
\* first Beetle to White's Queen
kGateLine ==
  << Mv(wB1, kNoneTile, kAbove), Mv(bB2, wB1, kW), Mv(wQ, wB1, kE),
     Mv(bQ, bB2, kNW), Mv(wA1, wB1, kNE), Mv(bB1, bB2, kSW),
     Mv(wA2, wB1, kSE), Mv(bQ, wB1, kNW), Mv(wB2, wQ, kNE),
     Mv(bB1, wB1, kSW), Mv(wB2, wA1, kAbove), Mv(bB1, wA2, kAbove) >>

\* a White Mosquito with White's first Ant to the east of it and White's
\* Queen to the south-east
kMosquitoLine ==
  << Mv(wA1, kNoneTile, kAbove), Mv(bA1, wA1, kE), Mv(wQ, wA1, kSW),
     Mv(bQ, bA1, kE), Mv(wM, wA1, kW), Mv(bA2, bQ, kE) >>

\* the first line above with White's Pillbug for White's first Beetle: the
\* way from the Pillbug to White's Queen has a stack on either side
kPillbugLine ==
  [n \in DOMAIN kGateLine |->
     [from |-> IF kGateLine[n].from = wB1 THEN wP ELSE kGateLine[n].from,
      to |-> IF kGateLine[n].to = wB1 THEN wP ELSE kGateLine[n].to,
      direction |-> kGateLine[n].direction]]

\* opening 5 and a placement of White's after it: it is Black's turn with
\* a stack of three tiles, the second Black Beetle on top
kStackLine == Openings[5] \o << Mv(wA1, wQ, kNW) >>

\* the lines of play a call is followed on: the openings but the last, and
\* the four lines above
SearchLines ==
  SubSeq(Openings, 1, Len(Openings) - 1)
    \o << kGateLine, kMosquitoLine, kPillbugLine, kStackLine >>

SearchOpenings == DOMAIN SearchLines

RECURSIVE Played(_, _)
\* the board after the first n moves of line k, and whether all of them
\* were carried out
Played(k, n) ==
  IF n = 0
  THEN [ok |-> TRUE, board |-> HexBoard(kDefaultBoardRadius)]
  ELSE LET before == Played(k, n - 1)
           result == DoApplyAction(before.board, MoveToAction(SearchLines[k][n]))
       IN  \* the guard has the board before the move evaluated first
           CASE before = before ->
             [ok |-> before.ok /\ result.ok, board |-> result.board]

\* the acting types GenerateMovesFor is called with for tile
ActingTypes(b, tile) ==
  IF GetBugType(tile) # "Mosquito" THEN {GetBugType(tile)}
  ELSE IF IsCovered(b, tile) THEN {}
  ELSE IF b.tile_positions_[tile][3] > 0 THEN {"Beetle"}
  ELSE MosquitoTypes(NeighboursOf(b, b.tile_positions_[tile], kNullPosition), 1, {}, {})

\* the switch of GenerateMovesFor: the generators of positions called for
\* an acting type, each with the distance it is handed
GeneratorsOf(start_pos, acting_type) ==
  CASE acting_type = "Queen" -> { <<"GenerateValidSlides", 1>> }
    [] acting_type = "Pillbug" ->
         { <<"GenerateValidPillbugSpecials", 0>>, <<"GenerateValidSlides", 1>> }
    [] acting_type = "Ant" -> { <<"GenerateValidSlides", -1>> }
    [] acting_type = "Spider" -> { <<"GenerateValidSlides", 3>> }
    [] acting_type = "Grasshopper" -> { <<"GenerateValidGrasshopperPositions", 0>> }
    [] acting_type = "Ladybug" -> { <<"GenerateValidLadybugPositions", 0>> }
    [] acting_type = "Beetle" ->
         { <<"GenerateValidClimbs", 0>> }
           \cup (IF start_pos[3] = 0 THEN { <<"GenerateValidSlides", 1>> } ELSE {})
    [] OTHER -> {}

\* GenerateMovesFor calls a generator for tile
SearchCalled(tile, call) ==
  search = [pc |-> "call", generator |-> call[1], tile |-> tile,
            start_pos |-> board_.tile_positions_[tile], distance |-> call[2],
            visited |-> {}, out |-> {}, stack |-> <<>>]

SearchInit ==
  /\ script \in SearchOpenings
  /\ move_number_ \in 1 .. Len(SearchLines[script])
  /\ game_ = HiveGame(kDefaultParameters)
  /\ board_ = Played(script, move_number_).board
  /\ force_terminal_ = ~Played(script, move_number_).ok
  /\ current_player_ = move_number_ % 2
  /\ action_id = 0
  /\ a_to_s = <<>>
  /\ \E tile \in { t \in Tiles : /\ IsInPlay(board_, t)
                                  /\ GetColour(t) = PlayerToColour(current_player_) } :
       \E acting_type \in ActingTypes(board_, tile) :
         \E call \in GeneratorsOf(board_.tile_positions_[tile], acting_type) :
           SearchCalled(tile, call)

\* a generator other than GenerateValidSlides, from its call to its return
SearchGenerate ==
  /\ search.pc = "call"
  /\ search.generator # "GenerateValidSlides"
  /\ search' =
       [search EXCEPT
          !.pc = "done",
          !.out = CASE search.generator = "GenerateValidClimbs" ->
                         GenerateValidClimbs(board_, search.tile, search.start_pos)
                    [] search.generator = "GenerateValidGrasshopperPositions" ->
                         GenerateValidGrasshopperPositions(board_, search.tile, search.start_pos)
                    [] search.generator = "GenerateValidLadybugPositions" ->
                         GenerateValidLadybugPositions(board_, search.tile, search.start_pos)
                    [] search.generator = "GenerateValidPillbugSpecials" ->
                         GenerateValidPillbugSpecials(board_, search.tile, search.start_pos)]
  /\ UNCHANGED state_vars

Frame(pos, from, depth) == [pc |-> "enter", pos |-> pos, from |-> from, depth |-> depth, dir |-> 0]

TopFrame == search.stack[Len(search.stack)]

\* the search with its top frame replaced by frame
WithTopFrame(s, frame) == [s EXCEPT !.stack[Len(s.stack)] = frame]

\* the search once the top frame has returned
Returned(s) ==
  LET rest == SubSeq(s.stack, 1, Len(s.stack) - 1)
  IN  [s EXCEPT !.stack = rest, !.pc = IF rest = <<>> THEN "done" ELSE "run"]

\* the test for a pinned or covered tile, then the first call of dfs
SearchCall ==
  /\ search.pc = "call"
  /\ search.generator = "GenerateValidSlides"
  /\ search' = IF IsPinned(board_, search.tile) \/ IsCovered(board_, search.tile)
               THEN [search EXCEPT !.pc = "done"]
               ELSE [search EXCEPT !.pc = "run",
                                   !.stack = << Frame(search.start_pos, kNumAllDirections, 1) >>]
  /\ UNCHANGED state_vars

\* dfs from its first test to the start of its second loop
SearchEnter ==
  /\ search.pc = "run"
  /\ TopFrame.pc = "enter"
  /\ LET f == TopFrame
         out1 == SlideFirstLoop(board_, search.start_pos, search.distance,
                                [visited |-> search.visited, out |-> search.out],
                                f.pos, f.from, f.depth)
     IN  search' =
           IF DfsReturns(search.visited, search.distance, f.pos, f.depth)
           THEN Returned(search)
           ELSE IF f.depth = search.distance
           THEN Returned([search EXCEPT !.out = out1])
           ELSE WithTopFrame([search EXCEPT !.out = out1, !.visited = @ \cup {f.pos}],
                             [f EXCEPT !.pc = "loop"])
  /\ UNCHANGED state_vars

\* one pass of the second loop up to the call of dfs
SearchStep ==
  /\ search.pc = "run"
  /\ TopFrame.pc = "loop"
  /\ TopFrame.dir < kNumCardinalDirections
  /\ LET f == TopFrame
         unlimited_distance == search.distance < 0
         to_test == PosAdd(f.pos, kNeighbourOffsets[f.dir + 1])
     IN  search' =
           IF \/ f.dir = f.from
              \/ to_test \in search.visited
              \/ ~SlideStepValid(board_, search.start_pos, f.pos, f.dir)
           THEN WithTopFrame(search, [f EXCEPT !.dir = @ + 1])
           ELSE LET s1 == IF f.depth = search.distance \/ unlimited_distance
                          THEN [search EXCEPT !.out = @ \cup {to_test}]
                          ELSE search
                    s2 == WithTopFrame(s1, [f EXCEPT !.pc = "back"])
                IN  [s2 EXCEPT !.stack = Append(@, Frame(to_test, OppositeDirection(f.dir),
                                                         f.depth + 1))]
  /\ UNCHANGED state_vars

\* the rest of the pass once dfs has returned
SearchBack ==
  /\ search.pc = "run"
  /\ TopFrame.pc = "back"
  /\ LET f == TopFrame
         to_test == PosAdd(f.pos, kNeighbourOffsets[f.dir + 1])
         s1 == IF ~(search.distance < 0)
               THEN [search EXCEPT !.visited = @ \ {to_test}]
               ELSE search
     IN  search' = WithTopFrame(s1, [f EXCEPT !.pc = "loop", !.dir = @ + 1])
  /\ UNCHANGED state_vars

\* the end of the second loop
SearchLeave ==
  /\ search.pc = "run"
  /\ TopFrame.pc = "loop"
  /\ TopFrame.dir >= kNumCardinalDirections
  /\ search' = Returned(search)
  /\ UNCHANGED state_vars

\* the steps of a call of GenerateValidSlides
SlideNext == SearchCall \/ SearchEnter \/ SearchStep \/ SearchBack \/ SearchLeave

SearchNext == SearchGenerate \/ SlideNext

\* a call of GenerateValidSlides that was started runs on until it returns
SearchSpec == SearchInit /\ [][SearchNext]_vars /\ WF_vars(SlideNext)

(***************************************************************************)
(* Reference notions the properties are stated with.  They are computed    *)
(* from tile_positions_ alone, not from the grid, the covered list, the    *)
(* influence sets or the articulation points.                              *)
(***************************************************************************)
TilesInPlay == { t \in Tiles : IsInPlay(board_, t) }

\* the tiles in play on the cell of position p
TilesAtCell(p) ==
  { t \in TilesInPlay : Grounded(board_.tile_positions_[t]) = Grounded(p) }

\* t is in play and no tile of its cell is higher
IsTopOfStack(t) ==
  /\ t \in TilesInPlay
  /\ \A u \in TilesAtCell(board_.tile_positions_[t]) :
       board_.tile_positions_[u][3] <= board_.tile_positions_[t][3]

TopTiles == { t \in TilesInPlay : IsTopOfStack(t) }

\* the cells that hold at least one tile
OccupiedCells == { Grounded(board_.tile_positions_[t]) : t \in TilesInPlay }

RECURSIVE Reach(_, _)
\* the cells of cells joined to a cell of seen by a chain of adjacent cells
Reach(seen, cells) ==
  LET more == { c \in cells \ seen : \E n \in Neighbours(c) : n \in seen }
  IN  IF more = {} THEN seen ELSE Reach(seen \cup more, cells)

ConnectedSet(cells) ==
  cells = {} \/ Reach({CHOOSE c \in cells : TRUE}, cells) = cells

\* the cut vertices of the adjacency graph on cells
CutVertices(cells) ==
  { c \in cells : ~ConnectedSet(cells \ {c}) }

\* the occupied cells once tile t is lifted off the board
CellsWithout(t) ==
  IF board_.tile_positions_[t][3] = 0 /\ TilesAtCell(board_.tile_positions_[t]) = {t}
  THEN OccupiedCells \ {Grounded(board_.tile_positions_[t])}
  ELSE OccupiedCells

(***************************************************************************)
(* Properties                                                              *)
(***************************************************************************)

ToMove == PlayerToColour(current_player_)

\* the cell at position p holds no tile
IsEmptyCell(p) ==
  \A t \in Tiles : IsInPlay(board_, t) => Grounded(board_.tile_positions_[t]) # Grounded(p)

\* some tile of colour c among tops sits on a cell adjacent to p
HasTopNeighbourOf(tops, c, p) ==
  \E t \in tops : GetColour(t) = c /\ Grounded(p) \in Neighbours(board_.tile_positions_[t])

\* the turn is one on which only the Queen may be placed
QueenForcingTurn ==
  (move_number_ = 6 \/ move_number_ = 7) /\ ~IsInPlay(board_, QueenOf(ToMove))

\* the ground cell next to the reference tile of move m in its direction
ReferencedCell(m) ==
  Grounded(PosAdd(board_.tile_positions_[m.to], kNeighbourOffsets[m.direction + 1]))

\* a tile of colour c may be placed on ground cell p; tops are the top tiles
MayPlaceAt(tops, c, p) ==
  /\ IsEmptyCell(p)
  /\ HasTopNeighbourOf(tops, c, p)
  /\ ~HasTopNeighbourOf(tops, OtherColour(c), p)

PlacementsOf(moves) == { m \in moves : ~IsInPlay(board_, m.from) }

(***************************************************************************)
(* Properties                                                              *)
(***************************************************************************)

\* C1: in every reachable state the occupied cells of the board form a
\* single connected component under cardinal adjacency.
C1_OneHive == ConnectedSet(OccupiedCells)

\* C2: for every generated move of a tile that is in play, the occupied
\* cells stay connected when the moving tile is lifted off the board.
C2_HiveHoldsWithoutMover ==
  \A m \in GeneratedMoves :
    IsInPlay(board_, m.from) => ConnectedSet(CellsWithout(m.from))

\* C3: after each committed move, with at least one tile in play,
\* articulation_points_ is exactly the set of ground positions of the
\* occupied cells that are cut vertices of the adjacency graph.
C3_ArticulationPointsExact ==
  (TilesInPlay # {} /\ ~force_terminal_) =>
    board_.articulation_points_ = CutVertices(OccupiedCells)

\* C4: no generated move has as its from a tile for which IsPinned holds,
\* neither as the tile's own movement nor as the target of a Pillbug special.
\* IsPinned looks up tile_positions_, which is kNullPosition for a tile in hand.
C4_PinnedTileNeverMoves ==
  LET pinned == { t \in Tiles : IsPinned(board_, t) }
  IN  \A m \in GeneratedMoves : m.from \notin pinned

\* C5: the grid holds at each cell exactly the highest tile in play there,
\* and covered_tiles_ holds exactly the other tiles in play, each once.
C5_IndexConsistency ==
  /\ \A idx \in DOMAIN board_.tile_grid_ :
       LET t == board_.tile_grid_[idx]
       IN  HasValue(t) =>
             /\ IsTopOfStack(t)
             /\ AxialToIndex(board_, board_.tile_positions_[t]) = idx
  /\ \A t \in TopTiles :
       GridAt(board_.tile_grid_, AxialToIndex(board_, board_.tile_positions_[t])) = t
  /\ { board_.covered_tiles_[i] : i \in 0 .. (kNumCoveredSlots - 1) } \ {kNoneTile}
       = TilesInPlay \ TopTiles
  /\ \A i, j \in 0 .. (kNumCoveredSlots - 1) :
       (i # j /\ board_.covered_tiles_[i] = board_.covered_tiles_[j])
         => board_.covered_tiles_[i] = kNoneTile

\* C5 case: the last move took a tile off a stack and the tile that was
\* under it is back in the grid, while another tile is still covered.
C5_Witness ==
  /\ board_.last_moved_from_[3] > 0
  /\ GridAt(board_.tile_grid_, AxialToIndex(board_, board_.last_moved_from_))
       \in TopTiles \ {board_.last_moved_}
  /\ TilesInPlay \ TopTiles # {}

\* C6: below every tile in play at height h > 0 there is exactly one tile
\* in play at every lower height of its cell; no two tiles share a position.
C6_StackIntegrity ==
  /\ \A t \in TilesInPlay :
       \A h \in 0 .. (board_.tile_positions_[t][3] - 1) :
         Cardinality({ u \in TilesAtCell(board_.tile_positions_[t]) :
                         board_.tile_positions_[u][3] = h }) = 1
  /\ \A t, u \in TilesInPlay :
       board_.tile_positions_[t] = board_.tile_positions_[u] => t = u

\* C6 case: a tile sits on a stack and the last tile moved came to rest on
\* the ground next to that stack.
C6_Witness ==
  \E t \in TilesInPlay :
    /\ board_.tile_positions_[t][3] > 0
    /\ HasValue(board_.last_moved_) /\ board_.last_moved_ # t
    /\ board_.tile_positions_[board_.last_moved_][3] = 0
    /\ board_.tile_positions_[board_.last_moved_]
         \in Neighbours(board_.tile_positions_[t])

\* C7: for both colours c, a ground position is in colour_influence_[c]
\* iff some top-of-stack tile of colour c sits on an adjacent cell.
C7_InfluenceCorrect ==
  \A c \in {kWhite, kBlack} :
    board_.colour_influence_[c] =
      UNION { Neighbours(board_.tile_positions_[t]) :
                t \in { u \in TopTiles : GetColour(u) = c } }

\* C7 case: the last move put a tile on top of a tile of the other colour.
C7_Witness ==
  /\ HasValue(board_.last_moved_)
  /\ board_.tile_positions_[board_.last_moved_][3] > 0
  /\ \E u \in TilesAtCell(board_.tile_positions_[board_.last_moved_]) :
       /\ GetColour(u) # GetColour(board_.last_moved_)
       /\ board_.tile_positions_[u][3] + 1 = board_.tile_positions_[board_.last_moved_][3]

\* C8: in a state that is not terminal LegalActions is not empty; it holds
\* the pass action iff no move is generated, and then nothing else.
C8_PassIffNothingGenerated ==
  ~IsTerminal =>
    LET legal == LegalActions
    IN  /\ legal # {}
        /\ (PassAction \in legal) <=> (GeneratedMoves = {})
        /\ (PassAction \in legal) => legal = {PassAction}

\* C8 case: a state that is not terminal in which nothing is generated.
C8_Witness ==
  /\ ~IsTerminal
  /\ TilesInPlay # {}
  /\ GeneratedMoves = {}
  /\ LegalActions = {PassAction}

\* C9: from move 2 on and outside the Queen-forcing turns, the placements
\* generated are exactly one move (tile, n, d) for every tile in hand of the
\* player to move and every top tile n next to a ground cell on which that
\* colour may be placed, and each resolves to that cell.
C9_PlacementsExact ==
  (move_number_ >= 2 /\ ~QueenForcingTurn) =>
    LET placements == PlacementsOf(GeneratedMoves)
        hand == GetTilesForColour(ToMove) \ TilesInPlay
        tops == TopTiles
        refs == { m \in { Mv(kNoneTile, n, d) : n \in tops, d \in CardinalDirections } :
                    MayPlaceAt(tops, ToMove, ReferencedCell(m)) }
    IN  /\ placements = { Mv(t, m.to, m.direction) : t \in hand, m \in refs }
        /\ \A m \in placements : MoveTarget(board_, m) = ReferencedCell(m)

\* C9 case: placements are generated, one cell takes two of them for the
\* same tile, and another cell next to an own top tile is refused because
\* an opposing top tile is next to it.
C9_Witness ==
  /\ move_number_ >= 2 /\ ~QueenForcingTurn
  /\ \E m1 \in PlacementsOf(GeneratedMoves) : \E m2 \in PlacementsOf(GeneratedMoves) :
       m1.from = m2.from /\ m1.to # m2.to /\ ReferencedCell(m1) = ReferencedCell(m2)
  /\ \E t \in TopTiles : \E p \in Neighbours(board_.tile_positions_[t]) :
       /\ GetColour(t) = ToMove
       /\ IsEmptyCell(p)
       /\ HasTopNeighbourOf(TopTiles, OtherColour(ToMove), p)

\* C10: at move 0 LegalActions is exactly the 13 actions that put a white
\* tile other than the Queen on the origin; at move 1 it is exactly the 78
\* actions that put a black tile other than the Queen next to the first
\* tile in one of the six directions.
C10_OpeningActions ==
  /\ move_number_ = 0 =>
       /\ LegalActions = { MoveToAction(Mv(t, kNoneTile, kAbove)) : t \in wA1 .. wP }
       /\ Cardinality(LegalActions) = 13
       /\ \A a \in LegalActions : MoveTarget(board_, ActionToMove(a)) = kOriginPosition
  /\ move_number_ = 1 =>
       /\ LegalActions = { MoveToAction(Mv(t, board_.played_tiles_[1], d)) :
                             t \in bA1 .. bP, d \in CardinalDirections }
       /\ Cardinality(LegalActions) = 78
       /\ \A a \in LegalActions :
            /\ ActionToMove(a).to = board_.played_tiles_[1]
            /\ ActionToMove(a).from \in bA1 .. bP

\* C10 case: Black is to make its first move after White's opening tile.
C10_Witness ==
  /\ move_number_ = 1
  /\ Len(board_.played_tiles_) = 1
  /\ Cardinality(LegalActions) = 78

\* C11: on moves 6 and 7, when the Queen of the player to move is not in
\* play, every legal action other than the pass has that Queen as its from
\* tile: no other placement, no movement and no Pillbug special.
C11_QueenForced ==
  QueenForcingTurn =>
    \A a \in LegalActions \ {PassAction} : ActionToMove(a).from = QueenOf(ToMove)

\* C11 case: a fourth turn with the Queen in hand, own tiles on the board
\* that could otherwise move, and a placement for the Queen.
C11_Witness ==
  /\ QueenForcingTurn
  /\ \E t \in TopTiles : GetColour(t) = ToMove /\ ~IsPinned(board_, t)
  /\ \E a \in LegalActions : a # PassAction

\* C12: a colour with four or more tiles in play has its Queen in play.
C12_QueenByFourthTile ==
  \A c \in {kWhite, kBlack} :
    Cardinality({ t \in TilesInPlay : GetColour(t) = c }) >= 4
      => IsInPlay(board_, QueenOf(c))

\* C12 case: the fourth tile a colour put into play was its Queen, placed
\* on its fourth turn.
C12_Witness ==
  /\ move_number_ \in {7, 8}
  /\ HasValue(board_.last_moved_)
  /\ GetBugType(board_.last_moved_) = "Queen"
  /\ Cardinality({ t \in TilesInPlay : GetColour(t) = GetColour(board_.last_moved_) }) = 4
  /\ board_.played_tiles_[Len(board_.played_tiles_)] = board_.last_moved_

\* C13: when the Queen of the player to move is not in play, every legal
\* action other than the pass has a from tile that is not yet in play: no
\* movement and no Pillbug special.
C13_NoMovementBeforeQueen ==
  ~IsInPlay(board_, QueenOf(ToMove)) =>
    \A a \in LegalActions \ {PassAction} : ~IsInPlay(board_, ActionToMove(a).from)

\* C13 case: before the fourth turn the player to move has tiles on the
\* board but not the Queen, the other Queen is in play, and placements are
\* generated.
C13_Witness ==
  /\ move_number_ >= 2 /\ move_number_ < 6
  /\ ~IsInPlay(board_, QueenOf(ToMove))
  /\ IsInPlay(board_, QueenOf(OtherColour(ToMove)))
  /\ \E t \in TopTiles :
       GetColour(t) = ToMove /\ t # board_.last_moved_ /\ GetBugType(t) \in {"Ant", "Grasshopper"}
  /\ PlacementsOf(GeneratedMoves) # {}

\* C14: a move of tile t that is carried out leaves t as the last moved
\* tile, and no legal action of a state has the last moved tile as its from
\* tile; a pass leaves no last moved tile.
C14_LastMovedExcluded ==
  /\ \A x \in LegalActions :
       HasValue(board_.last_moved_) => ActionToMove(x).from # board_.last_moved_
  /\ \A a \in ExploredActions :
       LET result == DoApplyAction(board_, a)
       IN  IF a = PassAction
           THEN /\ result.board.last_moved_ = kNoneTile
                /\ result.board.last_moved_from_ = kNullPosition
           ELSE result.ok => result.board.last_moved_ = ActionToMove(a).from

\* C14 case: the last move threw a tile of the player now to move, whose
\* Queen is in play; the thrown tile is not covered and other moves exist.
C14_Witness ==
  /\ HasValue(board_.last_moved_)
  /\ GetColour(board_.last_moved_) = ToMove
  /\ IsInPlay(board_, QueenOf(ToMove))
  /\ IsTopOfStack(board_.last_moved_)
  /\ GetBugType(board_.last_moved_) = "Ant"
  /\ LegalActions # {PassAction}

\* C15: no move is generated, for either colour, with a from tile that has
\* another tile above it on its cell, and a Pillbug with a tile above it
\* generates no special.
C15_CoveredTileNeverMoves ==
  LET covered == TilesInPlay \ TopTiles
  IN  /\ \A c \in { d \in {kWhite, kBlack} : covered # {} } :
           \A m \in GenerateAllMoves(board_, c, move_number_) : m.from \notin covered
      /\ \A t \in covered :
           /\ GenerateMovesFor(board_, t, GetBugType(t), GetColour(t)) = {}
           /\ GetBugType(t) = "Pillbug" =>
                GenerateValidPillbugSpecials(board_, t, board_.tile_positions_[t]) = {}

\* C15 case: the Pillbug of the player to move, whose Queen is in play, has
\* a tile above it and a top tile beside its cell that was not moved last.
C15_Witness ==
  \E t \in TilesInPlay \ TopTiles :
    /\ GetBugType(t) = "Pillbug"
    /\ GetColour(t) = ToMove
    /\ IsInPlay(board_, QueenOf(ToMove))
    /\ \E u \in TopTiles :
         /\ u # board_.last_moved_
         /\ board_.tile_positions_[u][3] = 0
         /\ board_.tile_positions_[u] \in Neighbours(Grounded(board_.tile_positions_[t]))

\* the Queen of colour c is in play with a tile on each of its six
\* neighbour cells
Surrounded(c) ==
  /\ IsInPlay(board_, QueenOf(c))
  /\ \A p \in Neighbours(board_.tile_positions_[QueenOf(c)]) : ~IsEmptyCell(p)

\* C16: when a Queen in play has all six neighbour cells occupied the state
\* is terminal and the current player is the terminal id; Returns is
\* (-1, +1) when only White's Queen is surrounded, (+1, -1) when only
\* Black's is, and (0, 0) when both or neither are.
C16_SurroundedQueenEndsGame ==
  LET white == Surrounded(kWhite)
      black == Surrounded(kBlack)
  IN  /\ (white \/ black) => IsTerminal /\ CurrentPlayer = kTerminalPlayerId
      /\ (white /\ ~black) => Returns = <<-1, 1>>
      /\ (black /\ ~white) => Returns = <<1, -1>>
      /\ (white = black) => Returns = <<0, 0>>

\* C16 case: the last move closed the ring round Black's Queen.
C16_Witness ==
  /\ Surrounded(kBlack) /\ ~Surrounded(kWhite)
  /\ HasValue(board_.last_moved_)
  /\ board_.tile_positions_[board_.last_moved_] \in Neighbours(board_.tile_positions_[bQ])
  /\ Returns = <<1, -1>>

\* C17: a move whose destination lies farther from the origin than the
\* radius makes MoveTile return false and leaves the grid, the tile
\* positions, the covered tiles, the played tiles, the last moved tile and
\* position, the influence sets and the articulation points as they were;
\* force_terminal_ holds iff largest_radius exceeds the radius, and then
\* the state is terminal with Returns (0, 0).
C17_OutOfBoundsEndsGame ==
  /\ force_terminal_ <=> board_.largest_radius > board_.hex_radius_
  /\ force_terminal_ => IsTerminal /\ Returns = <<0, 0>>
  /\ \A a \in ExploredActions \ {PassAction} :
       LET move == ActionToMove(a)
           dist == DistanceTo(MoveTarget(board_, move), kOriginPosition)
           result == MoveTile(board_, move)
       IN  IF dist > board_.hex_radius_
           THEN /\ ~result.ok
                /\ [result.board EXCEPT !.largest_radius = 0]
                     = [board_ EXCEPT !.largest_radius = 0]
                /\ result.board.largest_radius = dist
           ELSE result.ok

\* C17 case: the last action was a placement beyond the edge of the board,
\* which was not carried out.
C17_Witness ==
  /\ force_terminal_
  /\ move_number_ > 0
  /\ Len(board_.played_tiles_) = move_number_ - 1
  /\ board_.largest_radius = board_.hex_radius_ + 1
  /\ \E t \in TilesInPlay :
       DistanceTo(board_.tile_positions_[t], kOriginPosition) = board_.hex_radius_

ActionIdsRoundTrip ==
  /\ \A a \in 0 .. (kMaxTileCount * kMaxTileCount * kNumAllDirections) :
       MoveToAction(ActionToMove(a)) = a
  /\ IsPass(ActionToMove(kMaxTileCount * kMaxTileCount * kNumAllDirections))

\* C19: every generated move is returned by ActionToMove from the action
\* MoveToAction gives it, and its reference tile is not the tile moved;
\* every action id from 0 to 28 * 28 * 7 is returned by MoveToAction from
\* the move ActionToMove gives it, and 28 * 28 * 7 is the pass.
C19_ActionCodec ==
  /\ \A m \in GeneratedMoves :
       /\ ActionToMove(MoveToAction(m)) = m
       /\ m.to # m.from
  /\ ActionIdsRoundTrip

\* C19 case: a tile on top of a stack may step onto a neighbouring tile
\* and may step down, the tile under it serving as the reference.
C19_Witness ==
  LET generated == GeneratedMoves
  IN  \E m1 \in generated : \E m2 \in generated :
        /\ m1.from = m2.from
        /\ board_.tile_positions_[m1.from][3] > 0
        /\ m1.direction = kAbove /\ HasValue(m1.to)
        /\ m2.direction # kAbove
        /\ m2.to = GetTileBelow(board_, board_.tile_positions_[m2.from])

\* C20: for every action id below NumDistinctActions, the pass included,
\* StringToAction gives the id back from the text ActionToString writes
\* for it.
C20_TextRoundTrip ==
  /\ action_id \in 0 .. kNumDistinctActions
  /\ a_to_s # <<>> =>
       /\ a_to_s = ActionToString(action_id)
       /\ StringToAction(a_to_s) = action_id

\* C20 case: the text of every action id, the last being the pass, has
\* been written and read back.
C20_Witness ==
  /\ action_id = kNumDistinctActions
  /\ a_to_s = <<>>
  /\ ActionToString(action_id - 1) = kPassText

(***************************************************************************)
(* The game parameters.                                                    *)
(***************************************************************************)
\* C21: when the game parameter m (l, p) is false, no legal action moves or
\* places a Mosquito (Ladybug, Pillbug), and no tile of a bug type that is
\* not enabled is in play.
C21_DisabledBugsAbsent ==
  /\ \A t \in Tiles : IsInPlay(board_, t) => BugTypeIsEnabled(GetBugType(t))
  /\ \A a \in LegalActions \ {PassAction} :
       BugTypeIsEnabled(GetBugType(ActionToMove(a).from))

(***************************************************************************)
(* The positions of the tiles.                                             *)
(***************************************************************************)
\* there are max 6 tiles that can climb on the hive to cover a tile
kMaxHeight == 6

\* C22: every tile in play has a position (q, r, h) within hex distance R of
\* the origin, so |q| <= R, |r| <= R and its index in the flat grid lies in
\* [0, (2R+1)^2), and 0 <= h <= 6.
C22_PositionsInBounds ==
  \A t \in Tiles :
    IsInPlay(board_, t) =>
      LET pos == GetPositionOf(board_, t)
          R == Radius(board_)
      IN  /\ DistanceTo(pos, kOriginPosition) <= R
          /\ Abs(pos[1]) <= R
          /\ Abs(pos[2]) <= R
          /\ AxialToIndex(board_, pos) >= 0
          /\ AxialToIndex(board_, pos) < SquareDimensions(board_) * SquareDimensions(board_)
          /\ pos[3] >= 0
          /\ pos[3] <= kMaxHeight

\* a move to a cell beyond the radius was refused: its tile is still in
\* hand, and a tile lies on the rim of the board
C22_Witness ==
  /\ force_terminal_
  /\ board_.largest_radius > Radius(board_)
  /\ \E t \in Tiles :
       /\ IsInPlay(board_, t)
       /\ DistanceTo(GetPositionOf(board_, t), kOriginPosition) = Radius(board_)
  /\ Cardinality({ t \in Tiles : IsInPlay(board_, t) }) = move_number_ - 1

\* C23: a state of a game with parameter board_size = n has the board
\* radius min(n, 14): moves to cells within hex distance n of the origin are
\* applied, a move to a cell beyond it latches force_terminal_, and the
\* observation tensor has side 2n + 1.
C23_BoardSizeParameter ==
  LET n == game_.game_parameters_.board_size
  IN  /\ Radius(board_) = Min2(n, kMaxBoardRadius)
      /\ force_terminal_ <=> (board_.largest_radius > Min2(n, kMaxBoardRadius))
      /\ ObservationTensorShape[2] = 2 * n + 1
      /\ ObservationTensorShape[3] = 2 * n + 1

(***************************************************************************)
(* Movement on the ground.  The reference notions are computed from the    *)
(* occupied cells with the cell of the mover taken out.                    *)
(***************************************************************************)
\* a step on the ground from pos in direction d, occ being the occupied
\* cells without the cell of the mover: the cell entered is empty, exactly
\* one of the two cells beside the edge crossed is occupied, and the cell
\* entered has an occupied neighbour
GroundSlide(occ, pos, d) ==
  LET to == NeighbourAt(pos, d)
      cw == NeighbourAt(pos, ClockwiseDirection(d))
      ccw == NeighbourAt(pos, CounterClockwiseDirection(d))
  IN  /\ to \notin occ
      /\ (cw \in occ) # (ccw \in occ)
      /\ \E n \in Neighbours(to) : n \in occ

\* the cells one step on the ground leads to from pos
GroundSteps(occ, pos) ==
  { NeighbourAt(pos, d) : d \in { e \in CardinalDirections : GroundSlide(occ, pos, e) } }

\* the ends of the paths start -> p1 -> p2 -> p3 of three steps on the
\* ground through four different cells
ThreeStepEnds(occ, start) ==
  UNION { UNION { GroundSteps(occ, p2) \ {start, p1, p2} :
                    p2 \in GroundSteps(occ, p1) \ {start, p1} } :
            p1 \in GroundSteps(occ, start) \ {start} }

\* the occupied cells once the tile of the call followed has left its cell
OccupiedWithoutMover == OccupiedCells \ {search.start_pos}

\* the call followed is one of GenerateValidSlides with this distance for a
\* tile that is neither pinned nor covered
SlideSearchOver(distance) ==
  /\ search.pc = "done"
  /\ search.generator = "GenerateValidSlides"
  /\ search.distance = distance
  /\ ~IsPinned(board_, search.tile)
  /\ ~IsCovered(board_, search.tile)

\* C24: for a tile acting as a Spider that is neither pinned nor covered
\* GenerateValidSlides with distance 3 emits exactly the ends of the paths of
\* three steps on the ground through four different cells; a cell that only
\* one or two steps lead to is not emitted.
C24_SpiderSlides ==
  SlideSearchOver(3) =>
    /\ search.out = ThreeStepEnds(OccupiedWithoutMover, search.start_pos)
    /\ search.out = GenerateValidSlides(board_, search.tile, search.start_pos, 3)

\* a Spider has a cell to go to, and a cell one step away from it is not
\* among the cells emitted
C24_Witness ==
  /\ SlideSearchOver(3)
  /\ GetBugType(search.tile) = "Spider"
  /\ search.out # {}
  /\ GroundSteps(OccupiedWithoutMover, search.start_pos) \ search.out # {}

\* the steps the lambda is about to test: those of its first loop when it
\* is entered, the one of the pass of its second loop when it is in it
SearchTests ==
  IF search.pc # "run" THEN {}
  ELSE LET f == TopFrame
           open == { d \in CardinalDirections :
                       /\ d # f.from
                       /\ NeighbourAt(f.pos, d) \notin search.visited }
       IN  IF f.pc = "enter"
           THEN IF DfsReturns(search.visited, search.distance, f.pos, f.depth)
                THEN {} ELSE { <<f.pos, d>> : d \in open }
           ELSE IF f.pc = "loop" /\ f.dir \in open THEN { <<f.pos, f.dir>> }
           ELSE {}

\* C26: GenerateValidSlides accepts a step of the mover from pos in direction
\* d to pos' iff pos' is empty, exactly one of the two cells flanking the
\* edge is occupied and pos' has an occupied neighbour, the start cell of the
\* mover counting as unoccupied in the three tests.
C26_GroundSlidePrimitive ==
  \A x \in SearchTests :
    SlideStepValid(board_, search.start_pos, x[1], x[2])
      <=> GroundSlide(OccupiedWithoutMover, x[1], x[2])

\* a step is accepted that has the start cell of the mover on one side and
\* enters a cell next to the start cell
C26_Witness ==
  \E x \in SearchTests :
    /\ SlideStepValid(board_, search.start_pos, x[1], x[2])
    /\ search.start_pos \in { NeighbourAt(x[1], ClockwiseDirection(x[2])),
                               NeighbourAt(x[1], CounterClockwiseDirection(x[2])) }
    /\ search.start_pos \in Neighbours(NeighbourAt(x[1], x[2]))

RECURSIVE SlideClosure(_, _, _)
\* the cells reached from a cell of seen by a chain of steps on the ground
SlideClosure(occ, seen, frontier) ==
  LET next == UNION { GroundSteps(occ, pos) : pos \in frontier } \ seen
  IN  IF next = {} THEN seen ELSE SlideClosure(occ, seen \cup next, next)

\* the call followed is one for a tile acting as an Ant that is neither
\* pinned nor covered
AntSearch ==
  /\ search.pc # "none"
  /\ search.generator = "GenerateValidSlides"
  /\ search.distance = -1
  /\ ~IsPinned(board_, search.tile)
  /\ ~IsCovered(board_, search.tile)

\* the call has returned with out holding the cells other than the start
\* cell that steps on the ground lead to
AntSearchExact ==
  /\ search.out = SlideClosure(OccupiedCells \ {search.start_pos},
                               {search.start_pos}, {search.start_pos})
                    \ {search.start_pos}
  /\ search.out = GenerateValidSlides(board_, search.tile, search.start_pos,
                                      search.distance)

\* C25: for a tile acting as an Ant that is neither pinned nor covered the
\* search of GenerateValidSlides with unlimited distance ends, and it emits
\* exactly the cells other than the start cell that a chain of one or more
\* steps on the ground reaches from the start cell, which counts as vacated.
C25_AntSlides ==
  /\ [](AntSearch /\ search.pc = "done" => AntSearchExact)
  /\ (AntSearch ~> search.pc = "done")

\* the search of an Ant has returned with cells that take more than three
\* steps to reach
C25_Witness ==
  /\ AntSearch
  /\ search.pc = "done"
  /\ GetBugType(search.tile) = "Ant"
  /\ search.out \ ( GroundSteps(OccupiedCells \ {search.start_pos}, search.start_pos)
                     \cup ThreeStepEnds(OccupiedCells \ {search.start_pos}, search.start_pos) ) # {}
  /\ Cardinality(search.out) > 6

(***************************************************************************)
(* The Grasshopper.                                                        *)
(***************************************************************************)
\* the call followed is one of generator for a tile that is neither pinned
\* nor covered, and it has returned
CallOver(generator) ==
  /\ search.pc = "done"
  /\ search.generator = generator
  /\ ~IsPinned(board_, search.tile)
  /\ ~IsCovered(board_, search.tile)

\* the cell k steps from pos in direction d
StepsAway(pos, d, k) ==
  <<pos[1] + k * kNeighbourOffsets[d + 1][1], pos[2] + k * kNeighbourOffsets[d + 1][2], pos[3]>>

\* the cells a jump from pos in direction d ends on: the first empty cell
\* behind an unbroken run of one or more occupied cells
JumpEnds(pos, d) ==
  { StepsAway(pos, d, k) :
      k \in { n \in 2 .. (kMaxTileCount + 1) :
                /\ StepsAway(pos, d, n) \notin OccupiedCells
                /\ \A j \in 1 .. (n - 1) : StepsAway(pos, d, j) \in OccupiedCells } }

\* C27: for a Grasshopper that is neither pinned nor covered a destination
\* is emitted in direction d iff the adjacent cell in direction d is
\* occupied; it is the first empty cell behind the unbroken run of occupied
\* cells in that direction, and no other destination is emitted.
C27_GrasshopperJumps ==
  CallOver("GenerateValidGrasshopperPositions") =>
    /\ search.out = UNION { JumpEnds(search.start_pos, d) : d \in CardinalDirections }
    /\ \A d \in CardinalDirections :
         (JumpEnds(search.start_pos, d) # {})
           <=> (NeighbourAt(search.start_pos, d) \in OccupiedCells)

\* a Grasshopper jumps over two tiles or more in one direction and has an
\* empty cell beside it in another
C27_Witness ==
  /\ CallOver("GenerateValidGrasshopperPositions")
  /\ GetBugType(search.tile) = "Grasshopper"
  /\ \E d \in CardinalDirections :
       /\ StepsAway(search.start_pos, d, 2) \in OccupiedCells
       /\ JumpEnds(search.start_pos, d) \subseteq search.out
       /\ JumpEnds(search.start_pos, d) # {}
  /\ \E d \in CardinalDirections : NeighbourAt(search.start_pos, d) \notin OccupiedCells

(***************************************************************************)
(* Movement on top of the hive.                                            *)
(***************************************************************************)
\* the height of the top tile of the cell of p, -1 for an empty cell
TopHeight(p) ==
  IF Grounded(p) \notin OccupiedCells THEN -1
  ELSE CHOOSE h \in 0 .. kMaxHeight :
         \E t \in TopTiles : board_.tile_positions_[t] = <<p[1], p[2], h>>

\* where a step from pos in direction d lands: one above the top tile of
\* the adjacent cell, on the ground if that cell is empty
Landing(pos, d) ==
  LET to == NeighbourAt(Grounded(pos), d)
  IN  <<to[1], to[2], TopHeight(to) + 1>>

\* the two cells flanking direction d at pos both hold a top tile at
\* height h or above
GateAt(pos, d, h) ==
  /\ TopHeight(NeighbourAt(pos, ClockwiseDirection(d))) >= h
  /\ TopHeight(NeighbourAt(pos, CounterClockwiseDirection(d))) >= h

\* the landing positions of the ungated steps from pos; from the ground
\* only occupied cells are stepped on
ClimbEnds(pos) ==
  { Landing(pos, d) :
      d \in { e \in CardinalDirections :
                /\ Landing(pos, e)[3] > 0 \/ pos[3] > 0
                /\ ~GateAt(pos, e, Max2(pos[3], Landing(pos, e)[3])) } }

\* C28: for a mover at height h1 GenerateValidClimbs emits the step in
\* direction d to its landing position at height h2, one above the top tile
\* of the adjacent cell or the ground if that cell is empty and h1 > 0, iff
\* the two cells flanking d do not both hold top tiles at height max(h1, h2)
\* or above; a mover on the ground only gets climbs onto occupied cells.
C28_ClimbGate ==
  CallOver("GenerateValidClimbs") =>
    /\ search.out = ClimbEnds(search.start_pos)
    /\ search.start_pos[3] = 0 => \A p \in search.out : p[3] > 0

\* a Beetle on the ground has a tile beside it that it may not climb, the
\* cells on either side holding stacks, and another that it may climb
C28_Witness ==
  /\ CallOver("GenerateValidClimbs")
  /\ search.start_pos[3] = 0
  /\ search.out # {}
  /\ \E d \in CardinalDirections :
       /\ Landing(search.start_pos, d)[3] > 0
       /\ Landing(search.start_pos, d) \notin search.out

(***************************************************************************)
(* The Ladybug.                                                            *)
(***************************************************************************)
\* the landing positions of the ungated steps from pos onto the tops of the
\* adjacent occupied cells other than the cell of start
StepsOnto(start, pos) ==
  { Landing(pos, d) :
      d \in { e \in CardinalDirections :
                /\ Landing(pos, e)[3] > 0
                /\ Grounded(Landing(pos, e)) # Grounded(start)
                /\ ~GateAt(pos, e, Max2(pos[3], Landing(pos, e)[3])) } }

\* the empty ground cells an ungated step from pos goes down to
StepsDown(pos) ==
  { Landing(pos, d) :
      d \in { e \in CardinalDirections :
                /\ Landing(pos, e)[3] = 0
                /\ ~GateAt(pos, e, pos[3]) } }

\* the ends of the paths of three steps from start: up, across, down
LadybugEnds(start) ==
  UNION { StepsDown(p2) :
            p2 \in UNION { StepsOnto(start, p1) : p1 \in StepsOnto(start, start) } }

\* C29: for a Ladybug on the ground that is neither pinned nor covered the
\* destinations emitted are exactly the empty ground cells other than the
\* start cell that end a path of three ungated steps: a climb onto an
\* adjacent occupied cell, a step onto the top of an adjacent occupied cell
\* that is not the start cell, and a climb down to an adjacent empty ground
\* cell.
C29_LadybugPaths ==
  CallOver("GenerateValidLadybugPositions") /\ search.start_pos[3] = 0 =>
    /\ search.out = LadybugEnds(search.start_pos)
    /\ \A p \in search.out :
         p[3] = 0 /\ p # search.start_pos /\ p \notin OccupiedCells

\* a Ladybug has destinations, one of them beside its start cell, and an
\* empty cell beside the hive is not one of them
C29_Witness ==
  /\ CallOver("GenerateValidLadybugPositions")
  /\ GetBugType(search.tile) = "Ladybug"
  /\ search.start_pos[3] = 0
  /\ \E d \in CardinalDirections : NeighbourAt(search.start_pos, d) \in search.out
  /\ \E c \in OccupiedCells \ {search.start_pos} : \E d \in CardinalDirections :
       /\ NeighbourAt(c, d) \notin OccupiedCells
       /\ NeighbourAt(c, d) \notin search.out

(***************************************************************************)
(* The Mosquito.                                                           *)
(***************************************************************************)
\* the Mosquitos of the player to move that are on the ground and not
\* covered
GroundMosquitos ==
  { t \in TilesInPlay :
      /\ GetBugType(t) = "Mosquito"
      /\ GetColour(t) = PlayerToColour(current_player_)
      /\ ~IsCovered(board_, t)
      /\ board_.tile_positions_[t][3] = 0 }

\* the bug types other than Mosquito of the top tiles on the six cells
\* around tile
TypesAround(tile) ==
  { GetBugType(t) :
      t \in { n \in TopTiles :
                \E d \in CardinalDirections :
                  Grounded(board_.tile_positions_[n])
                    = NeighbourAt(board_.tile_positions_[tile], d) } } \ {"Mosquito"}

\* the action ids of the moves GenerateMovesFor emits for tile
ActionsAs(tile, acting_type) ==
  { MoveToAction(m) :
      m \in GenerateMovesFor(board_, tile, acting_type, PlayerToColour(current_player_)) }

\* the moves of tile are looked for by GenerateAllMoves
MovesLookedFor(tile) ==
  /\ IsInPlay(board_, QueenOf(PlayerToColour(current_player_)))
  /\ tile # board_.last_moved_

\* C30: the action ids an uncovered Mosquito on the ground contributes to
\* LegalActions are the union, over the bug types other than Mosquito of the
\* top tiles on its six neighbouring cells, of the actions GenerateMovesFor
\* emits for it with that acting type: skipping Queen or Spider once an Ant
\* was seen removes no action.  A generator called for the Mosquito is one of
\* a type beside it.
C30_MosquitoActions ==
  \A tile \in GroundMosquitos :
    LET emitted == ActionsAs(tile, "Mosquito")
    IN  /\ emitted = UNION { ActionsAs(tile, type) : type \in TypesAround(tile) }
        /\ MovesLookedFor(tile) /\ emitted # {} => emitted \subseteq LegalActions
        /\ search.tile = tile =>
             \E type \in TypesAround(tile) :
               <<search.generator, search.distance>>
                 \in GeneratorsOf(search.start_pos, type)

\* a Mosquito has an Ant and a Queen or a Spider beside it, the Ant is met
\* first and the other type is skipped, and the Mosquito has slid as an Ant
C30_Witness ==
  \E tile \in GroundMosquitos :
    /\ search.pc = "done" /\ search.tile = tile
    /\ search.distance < 0 /\ search.out # {}
    /\ MovesLookedFor(tile)
    /\ "Ant" \in TypesAround(tile)
    /\ TypesAround(tile) \cap {"Queen", "Spider"} # {}
    /\ MosquitoTypes(NeighboursOf(board_, board_.tile_positions_[tile], kNullPosition),
                     1, {}, {}) # TypesAround(tile)
    /\ ActionsAs(tile, "Mosquito") # {}

(***************************************************************************)
(* The special move of the Pillbug.                                        *)
(***************************************************************************)
\* the top tiles on the cells around the cell pos
TopTilesAround(pos) ==
  { t \in TopTiles :
      \E d \in CardinalDirections :
        Grounded(board_.tile_positions_[t]) = NeighbourAt(Grounded(pos), d) }

\* the direction from the cell pos to the adjacent cell to
DirectionTo(pos, to) ==
  CHOOSE d \in CardinalDirections : NeighbourAt(Grounded(pos), d) = Grounded(to)

\* the tiles a Pillbug at pos may lift
Liftable(pos) ==
  { t \in TopTilesAround(pos) :
      /\ board_.tile_positions_[t][3] = 0
      /\ ~IsPinned(board_, t)
      /\ t # board_.last_moved_
      /\ ~GateAt(pos, DirectionTo(pos, board_.tile_positions_[t]), 1) }

\* the cells a Pillbug at pos may put a tile down on
Droppable(pos) ==
  { NeighbourAt(pos, d) :
      d \in { e \in CardinalDirections :
                /\ NeighbourAt(pos, e) \notin OccupiedCells
                /\ ~GateAt(pos, e, 1) } }

\* the moves of t to the cell p, one for each top tile other than t around p
MovesInto(t, p) ==
  { Mv(t, ref, DirectionTo(board_.tile_positions_[ref], p)) :
      ref \in TopTilesAround(p) \ {t} }

\* the call followed is one of GenerateValidPillbugSpecials for a tile on
\* the ground that is not covered, and it has returned
SpecialsOver ==
  /\ search.pc = "done"
  /\ search.generator = "GenerateValidPillbugSpecials"
  /\ search.start_pos[3] = 0
  /\ ~IsCovered(board_, search.tile)

\* C31: an uncovered tile acting as a Pillbug on the ground at P emits a
\* special move of tile t to cell p iff t is the top tile of a cell adjacent
\* to P, not pinned, at height 0 and not the tile moved last, p is an empty
\* cell adjacent to P, and neither the direction from P to t nor the one
\* from P to p is gated at height 1 above P; one move is emitted per top
\* tile other than t adjacent to p.
C31_PillbugSpecials ==
  SpecialsOver =>
    /\ search.out = UNION { MovesInto(t, p) :
                              <<t, p>> \in Liftable(search.start_pos)
                                             \X Droppable(search.start_pos) }
    /\ \A t \in Liftable(search.start_pos), p \in Droppable(search.start_pos) :
         Cardinality({ m \in search.out :
                         /\ m.from = t
                         /\ NeighbourAt(Grounded(board_.tile_positions_[m.to]),
                                        m.direction) = p })
           = Cardinality(TopTilesAround(p) \ {t})

\* a Pillbug has moves for a tile beside it, while another tile beside it
\* that is on the ground, not pinned and not moved last is kept from being
\* lifted by the stacks on either side of it
C31_Witness ==
  /\ SpecialsOver
  /\ GetBugType(search.tile) = "Pillbug"
  /\ search.out # {}
  /\ \E t \in TopTilesAround(search.start_pos) :
       /\ board_.tile_positions_[t][3] = 0
       /\ ~IsPinned(board_, t)
       /\ t # board_.last_moved_
       /\ GateAt(search.start_pos, DirectionTo(search.start_pos, board_.tile_positions_[t]), 1)
       /\ \A m \in search.out : m.from # t

(***************************************************************************)
(* Moves and the positions they stand for.                                 *)
(***************************************************************************)
\* a generator of positions has returned
PositionsOut ==
  /\ search.pc = "done"
  /\ search.generator # "GenerateValidPillbugSpecials"

\* the moves GenerateMovesFor derives from the position d of out
DerivedFrom(d) == PositionsToMoves(board_, search.tile, search.start_pos, {d})

\* MoveTile with move puts its tile at d, on top of its cell
PutsAt(move, d) ==
  LET moved == MoveTile(board_, move)
  IN  /\ MoveTarget(board_, move) = d
      /\ moved.ok => /\ moved.board.tile_positions_[move.from] = d
                     /\ GetTopTileAt(moved.board, d) = move.from
      /\ moved.ok <=> DistanceTo(d, kOriginPosition) <= kDefaultBoardRadius

\* the cells the player to move may place a tile on, from the third move on
PlacementSpots ==
  { pos \in board_.colour_influence_[PlayerToColour(current_player_)] :
      /\ pos \notin OccupiedCells
      /\ pos \notin board_.colour_influence_[OtherColour(PlayerToColour(current_player_))] }

\* the reference tile and the direction of the moves GeneratePlacementMoves
\* derives from the position pos
PlacementReferences(pos) ==
  { <<GetTopTileAt(board_, NeighbourAt(pos, i)), OppositeDirection(i)>> :
      i \in { j \in CardinalDirections : NeighbourAt(pos, j) \in OccupiedCells } }

PlacementsGenerated ==
  GeneratePlacementMoves(board_, PlayerToColour(current_player_), move_number_)

\* every placement generated is derived from a cell of PlacementSpots, and
\* MoveTile resolves every move so derived to that cell, on the ground
PlacementsResolve ==
  /\ \A pos \in PlacementSpots : \A x \in PlacementReferences(pos) :
       MoveTarget(board_, Mv(kNoneTile, x[1], x[2])) = pos /\ pos[3] = 0
  /\ move_number_ >= 2 /\ PlacementsGenerated # {} =>
       { <<m.to, m.direction>> : m \in PlacementsGenerated }
         = UNION { PlacementReferences(pos) : pos \in PlacementSpots }
  /\ move_number_ = 1 =>
       \A m \in PlacementsGenerated :
         MoveTarget(board_, m) = NeighbourAt(kOriginPosition, m.direction)

\* C32: for every move that GenerateMovesFor or GeneratePlacementMoves
\* derives from a destination position d, MoveTile with that move puts the
\* tile exactly at d: in the same cell, at height 0 for a destination on the
\* ground and one above the top of the cell for a climb, also when the
\* reference tile is on a stack or is the tile below the mover.
C32_MovesResolve ==
  /\ PositionsOut =>
       \A d \in search.out :
         /\ d[3] = TopHeight(d) + 1
         /\ DerivedFrom(d) # {}
         /\ \A move \in DerivedFrom(d) : PutsAt(move, d)
  /\ search.pc = "call" => PlacementsResolve

\* a tile on top of the hive steps down to the ground with the tile below it
\* as the reference tile of one move and a tile on a stack as that of
\* another, and both put it on the ground of the cell; a placement is
\* derived as well
C32_Witness ==
  /\ PositionsOut
  /\ search.start_pos[3] > 0
  /\ \E d \in search.out :
       /\ d[3] = 0
       /\ \E move \in DerivedFrom(d) :
            /\ move.to = GetTileBelow(board_, search.start_pos)
            /\ PutsAt(move, d)
       /\ \E move \in DerivedFrom(d) :
            /\ board_.tile_positions_[move.to][3] > 0
            /\ PutsAt(move, d)
  /\ PlacementsGenerated # {}

(***************************************************************************)
(* What a tile leaves behind.                                              *)
(***************************************************************************)
\* the tiles of the covered list of b that are tiles, slot by slot
CoveredSlots(b) == { i \in 0 .. (kNumCoveredSlots - 1) : HasValue(b.covered_tiles_[i]) }

\* the slots in use are the first ones, and of two tiles of one cell the
\* lower one comes first
CoveredInOrder(b) ==
  /\ \A i \in CoveredSlots(b) : \A j \in 0 .. (i - 1) : j \in CoveredSlots(b)
  /\ \A i, j \in CoveredSlots(b) :
       i < j /\ Grounded(b.tile_positions_[b.covered_tiles_[i]])
                  = Grounded(b.tile_positions_[b.covered_tiles_[j]])
         => b.tile_positions_[b.covered_tiles_[i]][3]
              < b.tile_positions_[b.covered_tiles_[j]][3]

\* the tile at position pos, kNoneTile if there is none
TileAt(pos) ==
  IF \E t \in TilesInPlay : board_.tile_positions_[t] = pos
  THEN CHOOSE t \in TilesInPlay : board_.tile_positions_[t] = pos
  ELSE kNoneTile

\* MoveTile with move, once it has moved the tile of the call away from
\* old_pos, has put the tile that was below it into the grid and taken it
\* from the covered list, or left the cell empty
LeavesBehind(move, old_pos) ==
  LET moved == MoveTile(board_, move).board
      under == TileAt(<<old_pos[1], old_pos[2], old_pos[3] - 1>>)
  IN  /\ GridAt(moved.tile_grid_, AxialToIndex(moved, old_pos)) = under
      /\ old_pos[3] > 0 <=> HasValue(under)
      /\ \A i \in CoveredSlots(moved) : moved.covered_tiles_[i] # under
      /\ old_pos[3] > 0 => \E i \in CoveredSlots(board_) : board_.covered_tiles_[i] = under
      /\ CoveredInOrder(moved)

\* C33: when a tile leaves a position (q, r, h) with h > 0, the tile MoveTile
\* writes back into the grid at (q, r) is the tile at (q, r, h - 1), that
\* tile leaves the covered list, and afterwards the tiles of the covered
\* list fill its first slots, those of one cell in increasing height; when a
\* tile leaves a position on the ground the cell becomes empty.
C33_TileBelowReinstated ==
  PositionsOut =>
    \A d \in search.out : \A move \in DerivedFrom(d) :
      MoveTile(board_, move).ok => LeavesBehind(move, search.start_pos)

\* a tile leaves the top of a stack of three for the ground, with the two
\* tiles below it in the covered list; the one at height 1 comes back
C33_Witness ==
  /\ PositionsOut
  /\ search.start_pos[3] = 2
  /\ Cardinality(CoveredSlots(board_)) >= 2
  /\ \E d \in search.out : \E move \in DerivedFrom(d) :
       /\ d[3] = 0
       /\ MoveTile(board_, move).ok
       /\ LeavesBehind(move, search.start_pos)
       /\ Cardinality(CoveredSlots(MoveTile(board_, move).board)) >= 1

(***************************************************************************)
(* played_tiles_.                                                          *)
(***************************************************************************)
\* played_tiles_ holds every tile at most once, and the tiles it holds are
\* those in play
PlayedTilesExact ==
  /\ \A i, j \in DOMAIN board_.played_tiles_ :
       i # j => board_.played_tiles_[i] # board_.played_tiles_[j]
  /\ \A t \in Tiles :
       (\E i \in DOMAIN board_.played_tiles_ : board_.played_tiles_[i] = t)
         <=> board_.tile_positions_[t] # kNullPosition

\* a step keeps the entries of played_tiles_ and their order, appends at
\* most the tile moved and only if it was not in play, and takes no tile
\* out of play
PlayedTilesGrow ==
  LET before == board_.played_tiles_
      after == board_'.played_tiles_
  IN  /\ Len(after) \in { Len(before), Len(before) + 1 }
      /\ SubSeq(after, 1, Len(before)) = before
      /\ Len(after) = Len(before) + 1 =>
           /\ after[Len(after)] = board_'.last_moved_
           /\ board_.tile_positions_[after[Len(after)]] = kNullPosition
      /\ Len(after) = Len(before) =>
           \A t \in Tiles : (board_.tile_positions_[t] = kNullPosition)
                              <=> (board_'.tile_positions_[t] = kNullPosition)
      /\ \A t \in Tiles : board_.tile_positions_[t] # kNullPosition
                            => board_'.tile_positions_[t] # kNullPosition

\* C34: in every reachable state played_tiles_ contains each tile at most
\* once and contains t iff the position of t is not the null position; each
\* move carried out leaves the entries and their order as they are and
\* appends the tile moved only when it was not in play; a tile in play never
\* returns to the null position.
C34_PlayedTiles == [](PlayedTilesExact) /\ [][PlayedTilesGrow]_vars

\* a tile that was in play has moved: it is not the last of played_tiles_,
\* which holds fewer tiles than moves were made
C34_Witness ==
  /\ HasValue(board_.last_moved_)
  /\ Len(board_.played_tiles_) >= 4
  /\ Len(board_.played_tiles_) < move_number_
  /\ board_.played_tiles_[Len(board_.played_tiles_)] # board_.last_moved_
  /\ \E i \in DOMAIN board_.played_tiles_ : board_.played_tiles_[i] = board_.last_moved_

(***************************************************************************)
(* Whose turn it is.                                                       *)
(***************************************************************************)
\* White is to move iff move_number_ is even, the moves with rules of their
\* own fall to the colour they are meant for, and TurnString has the round
TurnOfMoveNumber ==
  /\ current_player_ = kPlayerWhite <=> move_number_ % 2 = 0
  /\ current_player_ \in {kPlayerWhite, kPlayerBlack}
  /\ move_number_ \in {0, 6} => PlayerToColour(current_player_) = kWhite
  /\ move_number_ \in {1, 7} => PlayerToColour(current_player_) = kBlack
  /\ TurnString = [colour |-> IF move_number_ % 2 = 0 THEN "White" ELSE "Black",
                   number |-> move_number_ \div 2 + 1]

\* an action applied hands the turn to the other player and counts as one
\* move
TurnAdvances ==
  /\ move_number_' = move_number_ + 1
  /\ current_player_' # current_player_

\* C35: in every reachable state the player to move is White iff
\* move_number_ is even: every action applied, a move carried out, a pass
\* or a move refused for leaving the board, advances the turn by one player,
\* so the rules of moves 0, 1, 6 and 7 apply to the colour whose turn it
\* is, and TurnString reports round move_number_ / 2 + 1.
C35_TurnParity == [](TurnOfMoveNumber) /\ [][TurnAdvances]_vars

\* the move before this state was refused for leaving the board, and the
\* turn has gone on to White
C35_Witness ==
  /\ force_terminal_
  /\ move_number_ > 7
  /\ current_player_ = kPlayerWhite
  /\ TurnString.number = move_number_ \div 2 + 1

(***************************************************************************)
(* The progress of the game in the text of the state.                      *)
(***************************************************************************)
\* C36: in every reachable state the progress written in the text of the
\* state agrees with the terminal status: NotStarted iff no move was made,
\* WhiteWins or BlackWins iff Returns is <<1, -1>> or <<-1, 1>>, Draw iff
\* the state is terminal with Returns <<0, 0>> (both Queens surrounded, the
\* limit of moves reached, or a move refused), and InProgress iff the state
\* is not terminal and a move was made.
C36_ProgressAgrees ==
  /\ ProgressString = "NotStarted" <=> move_number_ = 0
  /\ ProgressString = "WhiteWins" <=> Returns = <<1, -1>>
  /\ ProgressString = "BlackWins" <=> Returns = <<-1, 1>>
  /\ ProgressString = "Draw" <=> (IsTerminal /\ Returns = <<0, 0>>)
  /\ ProgressString = "InProgress" <=> (~IsTerminal /\ move_number_ > 0)

(***************************************************************************)
(* The type of the game in the text of the state.                          *)
(***************************************************************************)
\* the letters of the expansions enabled, in the order M, L, P
ExpansionLetters(params) ==
  (IF params.m THEN << "M" >> ELSE << >>)
    \o (IF params.l THEN << "L" >> ELSE << >>)
    \o (IF params.p THEN << "P" >> ELSE << >>)

GameTypeOf(params) ==
  IF ExpansionLetters(params) = << >>
  THEN << "B", "a", "s", "e" >>
  ELSE << "B", "a", "s", "e", "+" >> \o ExpansionLetters(params)

\* C37: the type of the game written by Serialize is Base when no expansion
\* is enabled and otherwise Base+ followed by exactly the letters of the
\* enabled expansions among M, L and P, in that order, whatever the setting
\* of the parameters m, l and p of the game.
C37_GameTypeString == GameTypeString = GameTypeOf(game_.game_parameters_)

(***************************************************************************)
(* Covered positions.                                                      *)
(***************************************************************************)
\* the positions asked about: the cells around the origin at the heights
\* of a stack, and the positions of the tiles in play
AskedPositions ==
  { <<q, r, h>> : q \in -1 .. 1, r \in -1 .. 1, h \in 0 .. 2 }
    \cup { board_.tile_positions_[t] : t \in TilesInPlay }

\* some tile in play is on the cell of pos, higher than pos
TileAbove(pos) ==
  \E t \in TilesInPlay :
    /\ Grounded(board_.tile_positions_[t]) = Grounded(pos)
    /\ board_.tile_positions_[t][3] > pos[3]

\* C38: IsCovered of a position is true iff some tile in play is on the
\* same cell at a greater height, and false otherwise: false for every
\* position of a board without tiles and for the position of every tile on
\* top of its stack.
C38_IsCoveredPosition ==
  \A pos \in AskedPositions : IsCoveredPos(board_, pos) <=> TileAbove(pos)

(***************************************************************************)
(* Pinned positions and tiles.                                             *)
(***************************************************************************)
\* the cell of position pos is one of articulation_points_
CellPinned(pos) == Grounded(pos) \in board_.articulation_points_

\* C39: IsPinned of a position, and IsPinned of a tile in play, are true
\* iff the position on the ground of the cell of the position given, or of
\* the tile, is one of articulation_points_, whatever the height h >= 0 of
\* the position or of the tile.
C39_IsPinnedGrounded ==
  /\ \A pos \in AskedPositions : IsPinnedPos(board_, pos) <=> CellPinned(pos)
  /\ \A t \in TilesInPlay :
       IsPinned(board_, t) <=> CellPinned(board_.tile_positions_[t])

(***************************************************************************)
(* The planes of the observation tensor.                                   *)
(***************************************************************************)
\* the plane of a feature when the planes are laid out bug type by bug
\* type, the observer's before the opponent's, then pinned, placeable and
\* covered
PlaneOf(feature, opposing) ==
  LET B == game_.num_bug_types_
      side == IF opposing THEN 1 ELSE 0
  IN  CASE feature = "pinned" -> 2 * B + side
        [] feature = "placeable" -> 2 * B + 2 + side
        [] feature = "covered" -> 2 * B + 4 + side
        [] OTHER -> 2 * BugTypeToTensorIndex(feature) + side

\* C40: with B enabled bug types, ObservationTensor writes a tile of the
\* i-th enabled bug type into plane 2i for the observer and 2i+1 for the
\* opponent, pinned into planes 2B and 2B+1, placeable into 2B+2 and 2B+3,
\* covered into 2B+4 and 2B+5, each at index [r+R, q+R]; every plane
\* written is below 2B+6 and no two different features are written to the
\* same plane.
C40_TensorPlanes ==
  \A player \in {kPlayerWhite, kPlayerBlack} :
    LET written == ObservationTensor(player)
    IN  /\ \A w \in written :
             /\ w.plane = PlaneOf(w.feature, w.opposing)
             /\ w.plane < 2 * game_.num_bug_types_ + 6
        /\ \A v, w \in written :
             v.plane = w.plane => v.feature = w.feature /\ v.opposing = w.opposing
        /\ \A t \in TilesInPlay :
             \E w \in written :
               /\ w.feature = GetBugType(t)
               /\ w.indices = << board_.tile_positions_[t][2] + Radius(board_),
                                 board_.tile_positions_[t][1] + Radius(board_) >>

=============================================================================
